---- MODULE Spec2Model ----
(***************************************************************************)
(* Indicator-and-scoring engine of Visualizing-the-T: the RSS composer,    *)
(* the indicator script (02_calculate_indicators.py) and the station       *)
(* stress index (dashboard_utils.calculate_cts).                           *)
(*                                                                         *)
(* Numbers are exact extended rationals [n, d]: d > 0 is the fraction n/d  *)
(* in lowest terms, d = 0 encodes what float division produces for a zero  *)
(* denominator: n = 1 is +inf, n = -1 is -inf, n = 0 is NaN (a missing     *)
(* value in pandas). Rounding error of float64 is not modelled.            *)
(***************************************************************************)
EXTENDS Integers, Sequences, FiniteSets, TLC

VARIABLES
    \* RSS composer
    cohort, rss_raw, rss_scaled, rss_pc,
    \* 02_calculate_indicators.py, section 4 (speed restrictions)
    restrictions_parquet, restrictions, restriction_metrics, restr_summary,
    restr_pc,
    \* 02_calculate_indicators.py, section 5 (ridership exposure)
    ridership, ridership_weights, total_system_ridership, rw_pc,
    \* dashboard_utils.calculate_cts and its caller pages/2_Route_Deep_Dive.py
    station_scores, cts_ridership, id_to_name, selected_route, cts_arg, merged,
    cts_pc,
    \* pages/3_Equity_Analysis.py (station name resolver)
    reporting_groups, station_names, target_data, rss_names, name_mapping,
    unmatched, equity_merged, res_pc,
    \* Uncertainty Estimator (bootstrap confidence intervals)
    boot_table, boot_B, boot_seed, boot_gen, boot_rng, boot_run, boot_route,
    boot_last, boot_means, boot_ci, boot_first, boot_pc,
    \* 02_calculate_indicators.py, sections 2 and 3 (travel time reliability, on-time performance)
    travel_times, travel_reliability, segment_benchmarks,
    travel_times_with_benchmark, otp_by_segment, seg_pc,
    \* ETL consolidation scripts (speed restrictions, ridership, passenger survey)
    etl_columns, etl_files, etl_out, etl_sample, etl_pc,
    \* consolidate_travel_times.py
    csv_files, temp_csvs, file_index, total_rows, final_df, tt_sample, tt_pc

vars ==
    <<cohort, rss_raw, rss_scaled, rss_pc, restrictions_parquet, restrictions,
      restriction_metrics, restr_summary, restr_pc, ridership,
      ridership_weights, total_system_ridership, rw_pc, station_scores,
      cts_ridership, id_to_name, selected_route, cts_arg, merged, cts_pc,
      reporting_groups, station_names, target_data, rss_names, name_mapping,
      unmatched, equity_merged, res_pc, boot_table, boot_B, boot_seed,
      boot_gen, boot_rng, boot_run, boot_route, boot_last, boot_means, boot_ci,
      boot_first, boot_pc, travel_times, travel_reliability,
      segment_benchmarks, travel_times_with_benchmark, otp_by_segment, seg_pc,
      etl_columns, etl_files, etl_out, etl_sample, etl_pc, csv_files,
      temp_csvs, file_index, total_rows, final_df, tt_sample, tt_pc>>

rssVars ==
    <<cohort, rss_raw, rss_scaled, rss_pc>>
restrVars ==
    <<restrictions_parquet, restrictions, restriction_metrics, restr_summary,
      restr_pc>>
rwVars ==
    <<ridership, ridership_weights, total_system_ridership, rw_pc>>
ctsVars ==
    <<station_scores, cts_ridership, id_to_name, selected_route, cts_arg,
      merged, cts_pc>>
resVars ==
    <<reporting_groups, station_names, target_data, rss_names, name_mapping,
      unmatched, equity_merged, res_pc>>
bootVars ==
    <<boot_table, boot_B, boot_seed, boot_gen, boot_rng, boot_run, boot_route,
      boot_last, boot_means, boot_ci, boot_first, boot_pc>>
segVars ==
    <<travel_times, travel_reliability, segment_benchmarks,
      travel_times_with_benchmark, otp_by_segment, seg_pc>>
etlVars ==
    <<etl_columns, etl_files, etl_out, etl_sample, etl_pc>>
ttVars ==
    <<csv_files, temp_csvs, file_index, total_rows, final_df, tt_sample, tt_pc>>

-----------------------------------------------------------------------------
(* Arithmetic *)

Abs(x) == IF x < 0 THEN -x ELSE x

Sign(x) == IF x < 0 THEN -1 ELSE IF x = 0 THEN 0 ELSE 1

RECURSIVE GCD(_, _)
GCD(a, b) == IF b = 0 THEN a ELSE GCD(b, a % b)

\* n/d as a float would hold it: lowest terms, or +-inf / NaN when d = 0.
Rat(n, d) ==
    IF d = 0 THEN [n |-> Sign(n), d |-> 0]
    ELSE LET g == GCD(Abs(n), Abs(d))
         IN  [n |-> Sign(n) * Sign(d) * (Abs(n) \div g), d |-> Abs(d) \div g]

RInt(i) == [n |-> i, d |-> 1]
NaN == [n |-> 0, d |-> 0]
IsNaN(x) == x.d = 0 /\ x.n = 0
IsFinite(x) == x.d # 0

RAdd(a, b) == Rat(a.n * b.d + b.n * a.d, a.d * b.d)
RNeg(a) == [n |-> -a.n, d |-> a.d]
RSub(a, b) == RAdd(a, RNeg(b))
RMul(a, b) == Rat(a.n * b.n, a.d * b.d)
RInv(a) == Rat(a.d, a.n)
RDiv(a, b) == RMul(a, RInv(b))

\* Comparisons are false as soon as one side is NaN, as in IEEE 754.
RLt(a, b) ==
    /\ ~IsNaN(a) /\ ~IsNaN(b)
    /\ IF a.d = 0 /\ b.d = 0 THEN a.n < b.n ELSE a.n * b.d < b.n * a.d
RLe(a, b) == ~IsNaN(a) /\ ~IsNaN(b) /\ (a = b \/ RLt(a, b))

SeqRange(s) == {s[i] : i \in DOMAIN s}

\* Series.min() / Series.max(): missing values are skipped; NaN when nothing is left.
RMin(S) ==
    LET V == {x \in S : ~IsNaN(x)}
    IN  IF V = {} THEN NaN ELSE CHOOSE m \in V : \A x \in V : RLe(m, x)
RMax(S) ==
    LET V == {x \in S : ~IsNaN(x)}
    IN  IF V = {} THEN NaN ELSE CHOOSE m \in V : \A x \in V : RLe(x, m)

RECURSIVE RSumSeq(_)
RSumSeq(s) == IF s = <<>> THEN RInt(0) ELSE RAdd(s[1], RSumSeq(Tail(s)))

\* Series.sum() / Series.mean(): missing values are skipped; the mean of nothing is NaN.
SkipNaN(s) == SelectSeq(s, LAMBDA x : ~IsNaN(x))
RSum(s) == RSumSeq(SkipNaN(s))
RMean(s) == RDiv(RSum(s), RInt(Len(SkipNaN(s))))

\* floor(10 * x + 1/2): x rounded to one decimal, in tenths (x finite).
RoundTenths(x) == (20 * x.n + x.d) \div (2 * x.d)

\* All sequences over S of length 1..k.
SeqsUpTo(S, k) == UNION {[1..m -> S] : m \in 1..k}

\* ascending order of a column of numbers: x put after the elements below it
InsertSorted(x, s) ==
    LET k == Cardinality({i \in DOMAIN s : RLt(s[i], x)})
    IN  [i \in 1..(Len(s) + 1) |->
            IF i <= k THEN s[i] ELSE IF i = k + 1 THEN x ELSE s[i - 1]]

RECURSIVE SortRats(_)
SortRats(s) == IF s = <<>> THEN <<>> ELSE InsertSorted(s[1], SortRats(Tail(s)))

\* the quantile num/den of an ascending column, by linear interpolation
\* between the two order statistics around position (len - 1) * num / den;
\* NaN for an empty column
Quantile(sorted, num, den) ==
    IF sorted = <<>> THEN NaN
    ELSE LET pos == Rat((Len(sorted) - 1) * num, den)
             lo == pos.n \div pos.d
             frac == RSub(pos, RInt(lo))
         IN  IF lo + 2 > Len(sorted) THEN sorted[lo + 1]
             ELSE RAdd(sorted[lo + 1],
                       RMul(frac, RSub(sorted[lo + 2], sorted[lo + 1])))

\* the sum of a column of present numbers, added up by halves
RECURSIVE RSumHalves(_)
RSumHalves(s) ==
    IF s = <<>> THEN RInt(0)
    ELSE IF Len(s) = 1 THEN s[1]
    ELSE LET h == Len(s) \div 2
         IN  RAdd(RSumHalves(SubSeq(s, 1, h)), RSumHalves(SubSeq(s, h + 1, Len(s))))

-----------------------------------------------------------------------------
(* RSS composer: weights, raw score, 60-100 scaling *)

\* comparison_data['Feature']
Feature == <<"travel_time_volatility", "buffer_time_index", "on_time_performance",
             "median_travel_time", "total_miles_restricted">>

LiteratureWeight_MedianHeavy ==
    <<Rat(25, 100), Rat(25, 100), Rat(25, 100), Rat(25, 100), Rat(10, 100)>>

\* comparison_data['Literature Weight']: 0.25, 0.25, 0.25, 0.15, 0.10
LiteratureWeight ==
    <<Rat(25, 100), Rat(25, 100), Rat(25, 100), Rat(15, 100), Rat(10, 100)>>

\* comparison_data['Direction']
Direction == <<"Negative", "Negative", "Positive", "Negative", "Negative">>

SignedWeight(k) ==
    IF Direction[k] = "Positive" THEN LiteratureWeight[k] ELSE RNeg(LiteratureWeight[k])

\* RSS = 0.25*OTP - 0.25*Volatility - 0.25*BufferTime - 0.15*TravelTime - 0.10*Restrictions
\* over one row z of z-scored indicators (steps 3-4 of the composer)
RSSRaw(z) ==
    RSumSeq([k \in DOMAIN Feature |-> RMul(SignedWeight(k), RInt(z[Feature[k]]))])

\* the score of every row of a cohort whose raw scores are all equal
DegenerateScore == 80

ScaleLinear_FromZero(x, lo, hi) ==
    RAdd(RInt(60), RDiv(RMul(RInt(40), x), RSub(hi, lo)))

ScaleLinear_Descending(x, lo, hi) ==
    RSub(RInt(100), RDiv(RMul(RInt(40), RSub(x, lo)), RSub(hi, lo)))

\* RSS_scaled = 60 + 40 * (RSS - min) / (max - min)
ScaleLinear(x, lo, hi) ==
    RAdd(RInt(60), RDiv(RMul(RInt(40), RSub(x, lo)), RSub(hi, lo)))

ScaleRSS_NoFallback(raw) ==
    LET lo == RMin(SeqRange(raw))
        hi == RMax(SeqRange(raw))
    IN  [i \in DOMAIN raw |-> ScaleLinear(raw[i], lo, hi)]

\* step 5 of the composer: the linear scaling over the cohort's min and max;
\* a cohort whose scores are all equal gets the constant score instead of 0/0.
ScaleRSS(raw) ==
    LET lo == RMin(SeqRange(raw))
        hi == RMax(SeqRange(raw))
    IN  IF hi = lo
        THEN [i \in DOMAIN raw |-> RInt(DegenerateScore)]
        ELSE [i \in DOMAIN raw |-> ScaleLinear(raw[i], lo, hi)]

MaxCohort == 3

\* z-scored indicator rows the cohorts are drawn from: the cohort mean, one
\* indicator one standard deviation below or two above it, or all five off
\* by the same amount in the direction that lowers (k > 0) or raises (k < 0)
\* the score.
ZeroRow == [f \in SeqRange(Feature) |-> 0]
ZRows ==
    {ZeroRow}
    \cup {[ZeroRow EXCEPT ![f] = v] : f \in SeqRange(Feature), v \in {-1, 2}}
    \cup {[f \in SeqRange(Feature) |-> IF f = "on_time_performance" THEN -k ELSE k] :
            k \in {-2, -1, 1, 2}}

InitRSS ==
    /\ cohort \in SeqsUpTo(ZRows, MaxCohort)
    /\ rss_raw = <<>>
    /\ rss_scaled = <<>>
    /\ rss_pc = "indicators"

\* steps 3-4 of the composer: RSS_raw of every row of the cohort
ComputeRaw ==
    /\ rss_pc = "indicators"
    /\ rss_raw' = [i \in DOMAIN cohort |-> RSSRaw(cohort[i])]
    /\ rss_pc' = "raw"
    /\ UNCHANGED <<cohort, rss_scaled>>

\* step 5 of the composer: RSS_scaled of every row of the cohort
Scale ==
    /\ rss_pc = "raw"
    /\ rss_scaled' = ScaleRSS(rss_raw)
    /\ rss_pc' = "scaled"
    /\ UNCHANGED <<cohort, rss_raw>>

-----------------------------------------------------------------------------
(* 02_calculate_indicators.py, section 4: speed restriction indicators and  *)
(* their part of the summary. Of the restriction table the columns Line,   *)
(* ID, the three date columns, the days-active count and                   *)
(* Restriction_Speed_MPH are modelled; text cells are sequences of         *)
(* characters, and a date is written as its day number.                    *)

DigitChar == <<"0", "1", "2", "3", "4", "5", "6", "7", "8", "9">>
IsDigit(c) == \E k \in DOMAIN DigitChar : DigitChar[k] = c
DigitValue(c) == (CHOOSE k \in DOMAIN DigitChar : DigitChar[k] = c) - 1

RECURSIVE ParseDigits(_, _)
ParseDigits(txt, acc) ==
    IF txt = <<>> THEN acc ELSE ParseDigits(Tail(txt), 10 * acc + DigitValue(txt[1]))

\* pd.to_numeric(errors='coerce') of one text cell: its value, or NaN when
\* the text ('NA', an empty cell) is not a number.
ToNumeric(txt) ==
    IF txt # <<>> /\ \A k \in DOMAIN txt : IsDigit(txt[k])
    THEN RInt(ParseDigits(txt, 0))
    ELSE NaN

\* pd.to_datetime of one text cell: the day it names, or NaT (held as NaN)
\* when the text ('NA', an empty cell) is not a date.
ToDatetime(txt) ==
    IF txt # <<>> /\ \A k \in DOMAIN txt : IsDigit(txt[k])
    THEN RInt(ParseDigits(txt, 0))
    ELSE NaN

\* the three date columns converted in place
CleanDates(rows) ==
    [i \in DOMAIN rows |->
        [rows[i] EXCEPT
            !.Date_Restriction_Reported = ToDatetime(rows[i].Date_Restriction_Reported),
            !.Calendar_Date = ToDatetime(rows[i].Calendar_Date),
            !.Date_Restriction_Cleared = ToDatetime(rows[i].Date_Restriction_Cleared)]]

\* restrictions['Restriction_Speed_MPH'] = pd.to_numeric(..., errors='coerce')
CleanSpeeds(rows) ==
    [i \in DOMAIN rows |->
        [rows[i] EXCEPT !.Restriction_Speed_MPH = ToNumeric(rows[i].Restriction_Speed_MPH)]]

\* duration_days of one converted record: the days-active count of its
\* calendar day, replaced for a record without a cleared date by
\* Calendar_Date - Date_Restriction_Reported in days
DurationDays(r) ==
    IF IsNaN(r.Date_Restriction_Cleared)
    THEN RSub(r.Calendar_Date, r.Date_Restriction_Reported)
    ELSE RInt(r.Restriction_Days_Active_On_Calendar_Day)

\* the new column restrictions['duration_days']
WithDurationDays(rows) ==
    [i \in DOMAIN rows |->
        [c \in DOMAIN rows[i] \cup {"duration_days"} |->
            IF c = "duration_days" THEN DurationDays(rows[i]) ELSE rows[i][c]]]

LinesOf(rows) == {rows[i].Line : i \in DOMAIN rows}
LineColumn(rows, line, col) ==
    LET own == SelectSeq(rows, LAMBDA r : r.Line = line)
    IN  [i \in DOMAIN own |-> own[i][col]]
LineSpeeds(rows, line) == LineColumn(rows, line, "Restriction_Speed_MPH")

ZeroFill(s) == [i \in DOMAIN s |-> IF IsNaN(s[i]) THEN RInt(0) ELSE s[i]]

LineAvgSpeed_ZeroFilled(rows, line) == RMean(ZeroFill(LineSpeeds(rows, line)))

\* groupby('Line')['Restriction_Speed_MPH'].mean()
LineAvgSpeed(rows, line) == RMean(LineSpeeds(rows, line))

\* groupby('Line')['Restriction_Speed_MPH'].min()
LineMinSpeed(rows, line) == RMin(SeqRange(LineSpeeds(rows, line)))

\* the number of records of a column
NUnique_Size(ids) == Len(ids)

\* 'nunique' of a column of present values
NUnique(ids) == Cardinality(SeqRange(ids))

\* restrictions.groupby('Line').agg(...) for one line
LineMetrics(rows, line) ==
    [n_restrictions |-> NUnique(LineColumn(rows, line, "ID")),
     avg_duration_days |-> RMean(LineColumn(rows, line, "duration_days")),
     total_restriction_days |-> RSum(LineColumn(rows, line, "duration_days")),
     avg_speed_mph |-> LineAvgSpeed(rows, line),
     min_speed_mph |-> LineMinSpeed(rows, line)]

\* Series.fillna(0)
FillNa0(x) == IF IsNaN(x) THEN RInt(0) ELSE x

\* Series.clip(0, 1)
Clip01(x) ==
    IF IsNaN(x) THEN x
    ELSE IF RLt(x, RInt(0)) THEN RInt(0)
    ELSE IF RLt(RInt(1), x) THEN RInt(1)
    ELSE x

SeverityIndex_Unclipped(avg_speed_mph) ==
    RSub(RInt(1), RDiv(FillNa0(avg_speed_mph), RInt(50)))

\* 1 - (avg_speed_mph.fillna(0) / 50).clip(0, 1)
SeverityIndex(avg_speed_mph) ==
    RSub(RInt(1), Clip01(RDiv(FillNa0(avg_speed_mph), RInt(50))))

\* int(restriction_metrics['n_restrictions'].sum())
RECURSIVE TotalRestrictions(_, _)
TotalRestrictions(metrics, lines) ==
    IF lines = {} THEN 0
    ELSE LET line == CHOOSE x \in lines : TRUE
         IN  metrics[line].n_restrictions + TotalRestrictions(metrics, lines \ {line})

MaxRestrictions == 3

SpeedTexts == {<<"1", "0">>, <<"2", "5">>, <<"4", "0">>, <<"6", "0">>, <<"N", "A">>, <<>>}
NotCleared == <<"N", "A">>

\* the record of one restriction on one calendar day; it was reported on
\* day 0 and its days-active count is that of the calendar day
DayRecord(line, id, calendar, cleared, speed) ==
    [Line |-> line, ID |-> id,
     Date_Restriction_Reported |-> <<"0">>,
     Calendar_Date |-> <<DigitChar[calendar + 1]>>,
     Date_Restriction_Cleared |-> cleared,
     Restriction_Days_Active_On_Calendar_Day |-> calendar,
     Restriction_Speed_MPH |-> speed]

RestrictionRows ==
    {DayRecord("Red", 1, 3, NotCleared, speed) : speed \in SpeedTexts}
    \cup {DayRecord("Orange", 3, 3, NotCleared, speed) : speed \in SpeedTexts}
    \cup {DayRecord("Red", id, calendar, cleared, <<"2", "5">>) :
            id \in {1, 2}, calendar \in {3, 5}, cleared \in {NotCleared, <<"5">>}}

InitRestr ==
    /\ restrictions_parquet \in SeqsUpTo(RestrictionRows, MaxRestrictions)
    /\ restrictions = <<>>
    /\ restriction_metrics = <<>>
    /\ restr_summary = <<>>
    /\ restr_pc = "start"

\* restrictions = pd.read_parquet(...)
LoadRestrictions ==
    /\ restr_pc = "start"
    /\ restrictions' = restrictions_parquet
    /\ restr_pc' = "loaded"
    /\ UNCHANGED <<restrictions_parquet, restriction_metrics, restr_summary>>

\* in-place column conversions of the loaded table and its new column
\* duration_days
CleanRestrictions ==
    /\ restr_pc = "loaded"
    /\ restrictions' = WithDurationDays(CleanSpeeds(CleanDates(restrictions)))
    /\ restr_pc' = "cleaned"
    /\ UNCHANGED <<restrictions_parquet, restriction_metrics, restr_summary>>

\* restriction_metrics = restrictions.groupby('Line').agg(...)
AggregateRestrictions ==
    /\ restr_pc = "cleaned"
    /\ restriction_metrics' =
        [line \in LinesOf(restrictions) |-> LineMetrics(restrictions, line)]
    /\ restr_pc' = "aggregated"
    /\ UNCHANGED <<restrictions_parquet, restrictions, restr_summary>>

\* restriction_metrics['severity_index'] = ...
ComputeSeverity ==
    /\ restr_pc = "aggregated"
    /\ restriction_metrics' =
        [line \in DOMAIN restriction_metrics |->
            [c \in DOMAIN restriction_metrics[line] \cup {"severity_index"} |->
                IF c = "severity_index"
                THEN SeverityIndex(restriction_metrics[line].avg_speed_mph)
                ELSE restriction_metrics[line][c]]]
    /\ restr_pc' = "done"
    /\ UNCHANGED <<restrictions_parquet, restrictions, restr_summary>>

\* summary_stats['restrictions']
SummariseRestrictions ==
    /\ restr_pc = "done"
    /\ restr_summary' =
        [n_lines |-> Cardinality(DOMAIN restriction_metrics),
         total_restrictions |->
            TotalRestrictions(restriction_metrics, DOMAIN restriction_metrics)]
    /\ restr_pc' = "summarised"
    /\ UNCHANGED <<restrictions_parquet, restrictions, restriction_metrics>>

-----------------------------------------------------------------------------
(* 02_calculate_indicators.py, section 5: ridership exposure weights *)

GroupKeys(rows) == {<<rows[i].route_id, rows[i].time_period_name>> : i \in DOMAIN rows}
GroupRows(rows, key) ==
    SelectSeq(rows, LAMBDA r : <<r.route_id, r.time_period_name>> = key)
Column(rows, col) == [i \in DOMAIN rows |-> RInt(rows[i][col])]

\* the value of the group's last record
FirstServiceDays_Last(own) == RInt(own[Len(own)].number_service_days)

\* 'number_service_days': 'first' of a group whose records all have a value
FirstServiceDays(own) == RInt(own[1].number_service_days)

\* ((total_ons + total_offs) / 2) / number_service_days
AvgDailyRidership(g) ==
    RDiv(RDiv(RAdd(g.total_ons, g.total_offs), RInt(2)), g.number_service_days)

RECURSIVE RSumOver(_, _, _)
RSumOver(f, keys, col) ==
    IF keys = {} THEN RInt(0)
    ELSE LET k == CHOOSE x \in keys : TRUE
         IN  IF IsNaN(f[k][col]) THEN RSumOver(f, keys \ {k}, col)
             ELSE RAdd(f[k][col], RSumOver(f, keys \ {k}, col))

TotalSystemRidership_OnsOnly(weights) == RSumOver(weights, DOMAIN weights, "total_ons")

\* ridership_weights['avg_daily_ridership'].sum()
TotalSystemRidership(weights) == RSumOver(weights, DOMAIN weights, "avg_daily_ridership")

MaxRidershipRows == 3

RidershipRows ==
    {r \in [route_id : {"Red", "Orange"}, time_period_name : {"AM_PEAK", "OFF_PEAK"},
            total_ons : {0, 3}, total_offs : {0, 1}, number_service_days : {1, 2}] :
        r.route_id = "Orange" => r.time_period_name = "AM_PEAK"}

InitRw ==
    /\ ridership \in SeqsUpTo(RidershipRows, MaxRidershipRows)
    /\ ridership_weights = <<>>
    /\ total_system_ridership = NaN
    /\ rw_pc = "loaded"

\* ridership.groupby(['route_id', 'time_period_name']).agg(sum, sum, first)
\* and the avg_daily_ridership column
AggregateRidership ==
    /\ rw_pc = "loaded"
    /\ ridership_weights' =
        [key \in GroupKeys(ridership) |->
            LET own == GroupRows(ridership, key)
                g == [total_ons |-> RSum(Column(own, "total_ons")),
                      total_offs |-> RSum(Column(own, "total_offs")),
                      number_service_days |-> FirstServiceDays(own)]
            IN  [total_ons |-> g.total_ons,
                 total_offs |-> g.total_offs,
                 number_service_days |-> g.number_service_days,
                 avg_daily_ridership |-> AvgDailyRidership(g)]]
    /\ rw_pc' = "aggregated"
    /\ UNCHANGED <<ridership, total_system_ridership>>

\* total_system_ridership and the exposure_weight column
ComputeExposureWeights ==
    /\ rw_pc = "aggregated"
    /\ LET total == TotalSystemRidership(ridership_weights)
       IN  /\ total_system_ridership' = total
           /\ ridership_weights' =
                [key \in DOMAIN ridership_weights |->
                    [total_ons |-> ridership_weights[key].total_ons,
                     total_offs |-> ridership_weights[key].total_offs,
                     number_service_days |-> ridership_weights[key].number_service_days,
                     avg_daily_ridership |-> ridership_weights[key].avg_daily_ridership,
                     exposure_weight |->
                        RDiv(ridership_weights[key].avg_daily_ridership, total)]]
    /\ rw_pc' = "done"
    /\ UNCHANGED ridership

-----------------------------------------------------------------------------
(* dashboard_utils.calculate_cts and its caller pages/2_Route_Deep_Dive.py *)

\* CAPACITY_MAP
CapacityRoutes ==
    {"Red", "Orange", "Blue", "Green", "Green-B", "Green-C", "Green-D", "Green-E",
     "Mattapan"}
CAPACITY_MAP ==
    [r \in CapacityRoutes |->
        CASE r = "Red" -> 1300
          [] r = "Orange" -> 1000
          [] r = "Blue" -> 900
          [] r = "Mattapan" -> 100
          [] OTHER -> 300]

\* a missing text value (None / NaN in an object column)
NoName == "<NA>"

\* astype(str) of an integer stop id
RECURSIVE Str(_)
Str(n) ==
    IF n < 10 THEN <<DigitChar[n + 1]>>
    ELSE Str(n \div 10) \o <<DigitChar[(n % 10) + 1]>>

\* Series.map(dict): the dict's value, missing for a key the dict lacks
MapGet(dict, key, missing) == IF key \in DOMAIN dict THEN dict[key] ELSE missing

\* ridership[ridership['time_period_name'].isin(['AM_PEAK', 'PM_PEAK'])]
PeakRidership(rid) ==
    SelectSeq(rid, LAMBDA r : r.time_period_name \in {"AM_PEAK", "PM_PEAK"})

\* scores_df: ids as text, station_name looked up, rows without a name dropped
ScoresDf(scores, idmap) ==
    LET named == [i \in DOMAIN scores |->
                    [route_id |-> scores[i].route_id,
                     from_stop_id |-> Str(scores[i].from_stop_id),
                     travel_time_volatility |-> scores[i].travel_time_volatility,
                     station_name |-> MapGet(idmap, Str(scores[i].from_stop_id), NoName)]]
    IN  SelectSeq(named, LAMBDA r : r.station_name # NoName)

\* peak_ridership.groupby(['route_id', 'stop_name'])['average_flow'].mean()
RidershipAgg(peak) ==
    [key \in {<<peak[i].route_id, peak[i].stop_name>> : i \in DOMAIN peak} |->
        LET own == SelectSeq(peak, LAMBDA r : <<r.route_id, r.stop_name>> = key)
        IN  RMean([i \in DOMAIN own |-> own[i].average_flow])]

\* a left join that keeps every named row and fills a missing flow with 0
InnerMerge_LeftZeroFill(scores_df, agg) ==
    [i \in DOMAIN scores_df |->
        [route_id |-> scores_df[i].route_id,
         from_stop_id |-> scores_df[i].from_stop_id,
         travel_time_volatility |-> scores_df[i].travel_time_volatility,
         station_name |-> scores_df[i].station_name,
         stop_name |-> scores_df[i].station_name,
         average_flow |->
            MapGet(agg, <<scores_df[i].route_id, scores_df[i].station_name>>, RInt(0))]]

\* pd.merge(scores_df, ridership_agg, on route and name, how='inner')
InnerMerge(scores_df, agg) ==
    LET hit == SelectSeq(scores_df,
                         LAMBDA r : <<r.route_id, r.station_name>> \in DOMAIN agg)
    IN  [i \in DOMAIN hit |->
            [route_id |-> hit[i].route_id,
             from_stop_id |-> hit[i].from_stop_id,
             travel_time_volatility |-> hit[i].travel_time_volatility,
             station_name |-> hit[i].station_name,
             stop_name |-> hit[i].station_name,
             average_flow |-> agg[<<hit[i].route_id, hit[i].station_name>>]]]

\* the lookup alone: no capacity for a route the map lacks
Capacity_NoFallback(route_id) ==
    IF route_id \in DOMAIN CAPACITY_MAP THEN RInt(CAPACITY_MAP[route_id]) ELSE NaN

\* merged['route_id'].map(CAPACITY_MAP).fillna(1000)
Capacity(route_id) == RInt(MapGet(CAPACITY_MAP, route_id, 1000))

VariabilityPositive_NoShift(vol, min_vol) == RAdd(vol, RInt(1))

\* travel_time_volatility + abs(min_vol) + 1 if min_vol < 0, else + 1
VariabilityPositive(vol, min_vol) ==
    IF RLt(min_vol, RInt(0))
    THEN RAdd(RAdd(vol, RNeg(min_vol)), RInt(1))
    ELSE RAdd(vol, RInt(1))

LoadFactor_PerThousand(average_flow, capacity) == RDiv(average_flow, RInt(1000))

\* merged['average_flow'] / merged['capacity']
LoadFactor(average_flow, capacity) == RDiv(average_flow, capacity)

\* the shift's reference: merged['travel_time_volatility'].min()
MinVol(rows) == RMin({rows[i].travel_time_volatility : i \in DOMAIN rows})

calculate_cts(scores, rid, idmap) ==
    LET m == InnerMerge(ScoresDf(scores, idmap), RidershipAgg(PeakRidership(rid)))
        min_vol == MinVol(m)
    IN  [i \in DOMAIN m |->
            LET capacity == Capacity(m[i].route_id)
                variability_positive ==
                    VariabilityPositive(m[i].travel_time_volatility, min_vol)
                load_factor == LoadFactor(m[i].average_flow, capacity)
            IN  [route_id |-> m[i].route_id,
                 from_stop_id |-> m[i].from_stop_id,
                 travel_time_volatility |-> m[i].travel_time_volatility,
                 station_name |-> m[i].station_name,
                 stop_name |-> m[i].stop_name,
                 average_flow |-> m[i].average_flow,
                 capacity |-> capacity,
                 variability_positive |-> variability_positive,
                 load_factor |-> load_factor,
                 CTS |-> RMul(load_factor, variability_positive)]]

MaxStations == 2

\* get_station_mapping's id_to_name for the stops of the travel-time sample;
\* stop 70999 of the station table has no name in it
StationMapping ==
    (Str(70061) :> "Alewife") @@ (Str(70077) :> "Downtown Crossing")

Vols == {RInt(-2), RInt(0), Rat(3, 10)}

\* the rows of stop 70999 (no name) and of Orange at Alewife (no ridership)
\* leave the table before the volatility is read: one volatility each
StationRows ==
    [route_id : {"Red"}, from_stop_id : {70061, 70077}, travel_time_volatility : Vols]
    \cup [route_id : {"Orange"}, from_stop_id : {70077}, travel_time_volatility : Vols]
    \cup [route_id : {"Red"}, from_stop_id : {70999},
          travel_time_volatility : {Rat(3, 10)}]
    \cup [route_id : {"Orange"}, from_stop_id : {70061},
          travel_time_volatility : {Rat(3, 10)}]
    \cup [route_id : {"Blue", "Green-B", "Mattapan", "Silver"}, from_stop_id : {70077},
          travel_time_volatility : {Rat(3, 10)}]

FlowRow(route, stop, period, flow) ==
    [route_id |-> route, stop_name |-> stop, time_period_name |-> period,
     average_flow |-> RInt(flow)]

\* rows a ridership table may or may not hold, in file order
OptionalFlowRows ==
    <<FlowRow("Red", "Alewife", "AM_PEAK", 1000),
      FlowRow("Red", "Alewife", "OFF_PEAK", 200),
      FlowRow("Red", "Alewife", "PM_PEAK", 1400),
      FlowRow("Orange", "Downtown Crossing", "AM_PEAK", 1000),
      FlowRow("Orange", "Downtown Crossing", "PM_PEAK", 1400),
      FlowRow("Red", "Downtown Crossing", "PM_PEAK", 650)>>

\* rows every ridership table holds
CommonFlowRows ==
    <<FlowRow("Blue", "Downtown Crossing", "AM_PEAK", 450),
      FlowRow("Green-B", "Downtown Crossing", "PM_PEAK", 150),
      FlowRow("Mattapan", "Downtown Crossing", "AM_PEAK", 50),
      FlowRow("Mattapan", "Downtown Crossing", "OFF_PEAK", 10),
      FlowRow("Silver", "Downtown Crossing", "PM_PEAK", 500)>>

RidershipTables ==
    {SelectSeq([i \in DOMAIN OptionalFlowRows |-> <<i, OptionalFlowRows[i]>>],
               LAMBDA p : p[1] \in keep) : keep \in SUBSET DOMAIN OptionalFlowRows}

InitCts ==
    /\ station_scores \in SeqsUpTo(StationRows, MaxStations)
    /\ \E t \in RidershipTables :
        cts_ridership = [i \in DOMAIN t |-> t[i][2]] \o CommonFlowRows
    /\ id_to_name = StationMapping
    /\ selected_route = ""
    /\ cts_arg = <<>>
    /\ merged = <<>>
    /\ cts_pc = "loaded"

\* Route Deep Dive: the selected route's station scores go to calculate_cts
\* together with the whole ridership table
RouteDeepDive(route) ==
    /\ cts_pc = "loaded"
    /\ selected_route' = route
    /\ cts_arg' = SelectSeq(station_scores, LAMBDA r : r.route_id = route)
    /\ merged' = calculate_cts(cts_arg', cts_ridership, id_to_name)
    /\ cts_pc' = "done"
    /\ UNCHANGED <<station_scores, cts_ridership, id_to_name>>

\* calculate_cts called on a station table of all routes
CalculateCtsAllRoutes ==
    /\ cts_pc = "loaded"
    /\ cts_arg' = station_scores
    /\ merged' = calculate_cts(cts_arg', cts_ridership, id_to_name)
    /\ cts_pc' = "done"
    /\ UNCHANGED <<station_scores, cts_ridership, id_to_name, selected_route>>

-----------------------------------------------------------------------------
(* pages/3_Equity_Analysis.py: station name resolver between the survey's  *)
(* reporting groups and the station names of the RSS table. A name is a    *)
(* sequence of characters.                                                 *)

\* the characters of the names, in code point order
CodePoints == <<"A", "B", "a", "b", "c", "d">>
Ord(c) == CHOOSE k \in DOMAIN CodePoints : CodePoints[k] = c

\* str.lower()
LowerChar(c) == CASE c = "A" -> "a" [] c = "B" -> "b" [] OTHER -> c
Lower(s) == [i \in DOMAIN s |-> LowerChar(s[i])]

\* str < str: by code point, a proper prefix first
RECURSIVE StrLt(_, _)
StrLt(x, y) ==
    IF y = <<>> THEN FALSE
    ELSE IF x = <<>> THEN TRUE
    ELSE IF x[1] # y[1] THEN Ord(x[1]) < Ord(y[1])
    ELSE StrLt(Tail(x), Tail(y))

RECURSIVE SortNames(_)
SortNames(S) ==
    IF S = {} THEN <<>>
    ELSE LET m == CHOOSE x \in S : \A y \in S \ {x} : StrLt(x, y)
         IN  <<m>> \o SortNames(S \ {m})

\* Series.unique(): the distinct values in order of first appearance
RECURSIVE Unique(_)
Unique(column) ==
    IF column = <<>> THEN <<>>
    ELSE <<column[1]>> \o Unique(SelectSeq(Tail(column), LAMBDA x : x # column[1]))

\* the distinct names left in order of first appearance, unsorted
GroupNames_Unsorted(column) == Unique(column)

\* the key column of groupby(name).agg().reset_index(): distinct, sorted
GroupNames(column) == SortNames(SeqRange(column))

\* difflib.SequenceMatcher: length of the common run of a from i and b from j
RECURSIVE RunLen(_, _, _, _, _, _)
RunLen(a, i, ahi, b, j, bhi) ==
    IF i > ahi \/ j > bhi THEN 0
    ELSE IF a[i] # b[j] THEN 0
    ELSE 1 + RunLen(a, i + 1, ahi, b, j + 1, bhi)

\* SequenceMatcher.find_longest_match on a[alo..ahi] and b[blo..bhi]: the
\* longest common block; of several, the one starting earliest in a, then
\* earliest in b. No junk, autojunk idle below 200 characters.
find_longest_match(a, alo, ahi, b, blo, bhi) ==
    LET blocks == {<<i, j, RunLen(a, i, ahi, b, j, bhi)>> :
                        i \in alo..ahi, j \in blo..bhi}
        best == CHOOSE m \in blocks :
                    \A o \in blocks :
                        \/ o[3] < m[3]
                        \/ o[3] = m[3] /\ m[1] < o[1]
                        \/ o[3] = m[3] /\ m[1] = o[1] /\ m[2] <= o[2]
    IN  IF best[3] = 0 THEN <<alo, blo, 0>> ELSE best

\* SequenceMatcher.get_matching_blocks: total size of the matching blocks
RECURSIVE MatchedChars(_, _, _, _, _, _)
MatchedChars(a, alo, ahi, b, blo, bhi) ==
    IF alo > ahi \/ blo > bhi THEN 0
    ELSE LET m == find_longest_match(a, alo, ahi, b, blo, bhi)
         IN  IF m[3] = 0 THEN 0
             ELSE m[3] + MatchedChars(a, alo, m[1] - 1, b, blo, m[2] - 1)
                       + MatchedChars(a, m[1] + m[3], ahi, b, m[2] + m[3], bhi)

\* difflib's _calculate_ratio: 2.0 * matches / length, 1.0 for two empty strings
CalculateRatio(matches, length) ==
    IF length = 0 THEN RInt(1) ELSE Rat(2 * matches, length)

\* SequenceMatcher(None, a, b).ratio()
ratio(a, b) == CalculateRatio(MatchedChars(a, 1, Len(a), b, 1, Len(b)), Len(a) + Len(b))

CountOf(c, s) == Cardinality({i \in DOMAIN s : s[i] = c})
MinInt(x, y) == IF x <= y THEN x ELSE y

RECURSIVE IntSumOver(_, _)
IntSumOver(f, S) ==
    IF S = {} THEN 0
    ELSE LET x == CHOOSE y \in S : TRUE IN f[x] + IntSumOver(f, S \ {x})

\* SequenceMatcher.quick_ratio(): characters in common, position ignored
quick_ratio(a, b) ==
    LET chars == SeqRange(a)
        common == [c \in chars |-> MinInt(CountOf(c, a), CountOf(c, b))]
    IN  CalculateRatio(IntSumOver(common, chars), Len(a) + Len(b))

\* SequenceMatcher.real_quick_ratio(): from the lengths alone
real_quick_ratio(a, b) == CalculateRatio(MinInt(Len(a), Len(b)), Len(a) + Len(b))

\* difflib.get_close_matches(word, possibilities, n=1, cutoff): the
\* possibilities scoring at least cutoff against word, as (score, name)
\* pairs; the name of the largest pair, or nothing
get_close_matches(word, possibilities, cutoff) ==
    LET close == {x \in SeqRange(possibilities) :
                    /\ RLe(cutoff, real_quick_ratio(x, word))
                    /\ RLe(cutoff, quick_ratio(x, word))
                    /\ RLe(cutoff, ratio(x, word))}
        result == {<<ratio(x, word), x>> : x \in close}
    IN  IF result = {} THEN <<>>
        ELSE LET largest == CHOOSE p \in result :
                                \A q \in result :
                                    \/ RLt(q[1], p[1])
                                    \/ q[1] = p[1] /\ (q[2] = p[2] \/ StrLt(q[2], p[2]))
             IN  <<largest[2]>>

\* the loop body with the fuzzy step tried before the case-insensitive one
ResolveName_FuzzyFirst(s_name, names) ==
    IF s_name \in SeqRange(names) THEN <<s_name>>
    ELSE LET close == get_close_matches(s_name, names, Rat(8, 10))
             matches == SelectSeq(names, LAMBDA r : Lower(r) = Lower(s_name))
         IN  IF close # <<>> THEN close
             ELSE IF matches # <<>> THEN <<matches[1]>>
             ELSE <<>>

\* the loop body for one survey name: exact, then case-insensitive, then
\* fuzzy; the target name found, or nothing
ResolveName(s_name, names) ==
    IF s_name \in SeqRange(names) THEN <<s_name>>
    ELSE LET matches == SelectSeq(names, LAMBDA r : Lower(r) = Lower(s_name))
         IN  IF matches # <<>> THEN <<matches[1]>>
             ELSE get_close_matches(s_name, names, Rat(8, 10))

\* name_mapping after the loop over survey_names
NameMapping(survey_names, names) ==
    LET entries == {<<s, ResolveName(s, names)>> : s \in SeqRange(survey_names)}
        found == {e \in entries : e[2] # <<>>}
    IN  [s \in {e[1] : e \in found} |-> (CHOOSE e \in found : e[1] = s)[2][1]]

\* the mapping the page derives from the two raw name columns
PageMapping(groups, stations) ==
    NameMapping(Unique(GroupNames(groups)), Unique(GroupNames(stations)))

\* the groups that have no exact counterpart among the values of the mapping
UnmatchedGroups_NotExact(target, mapping) ==
    SelectSeq(target, LAMBDA s : MapGet(mapping, s, <<>>) # s)

\* target_data[target_data['station_name_mapped'].isna()]['reporting_group'],
\* station_name_mapped being reporting_group.map(name_mapping); <<>> stands
\* for the missing value of a group without a mapping
UnmatchedGroups(target, mapping) ==
    SelectSeq(target, LAMBDA s : MapGet(mapping, s, <<>>) = <<>>)

\* target_data_matched merged with rss_agg on station_name_mapped = station_name
EquityMerge(target, mapping, rss) ==
    LET matched == SelectSeq(target, LAMBDA s : MapGet(mapping, s, <<>>) # <<>>)
        hit == SelectSeq(matched, LAMBDA s : mapping[s] \in SeqRange(rss))
    IN  [i \in DOMAIN hit |-> [reporting_group |-> hit[i], station_name |-> mapping[hit[i]]]]

MaxSurveyRows == 2
MaxStationRows == 2

SurveyGroups == {<<"a", "b">>, <<"A", "B">>, <<"a", "b", "c">>, <<"b">>}
StationNames ==
    {<<"a", "b">>, <<"A", "b">>, <<"a", "b", "c">>, <<"a", "b", "d">>, <<"b", "c">>,
     <<"a", "a", "b", "c">>}

InitResolver ==
    /\ reporting_groups \in SeqsUpTo(SurveyGroups, MaxSurveyRows)
    /\ station_names \in SeqsUpTo(StationNames, MaxStationRows)
    /\ target_data = <<>>
    /\ rss_names = <<>>
    /\ name_mapping = <<>>
    /\ unmatched = <<>>
    /\ equity_merged = <<>>
    /\ res_pc = "loaded"

\* the survey and RSS tables are grouped by name and the loop fills name_mapping
ResolveNames ==
    /\ res_pc = "loaded"
    /\ target_data' = GroupNames(reporting_groups)
    /\ rss_names' = Unique(GroupNames(station_names))
    /\ name_mapping' = NameMapping(Unique(target_data'), rss_names')
    /\ res_pc' = "mapped"
    /\ UNCHANGED <<reporting_groups, station_names, unmatched, equity_merged>>

\* the unmatched groups are shown and the matched ones joined to the RSS table
ReportUnmatched ==
    /\ res_pc = "mapped"
    /\ unmatched' = UnmatchedGroups(target_data, name_mapping)
    /\ equity_merged' = EquityMerge(target_data, name_mapping, rss_names)
    /\ res_pc' = "done"
    /\ UNCHANGED <<reporting_groups, station_names, target_data, rss_names, name_mapping>>

-----------------------------------------------------------------------------
(* 02_calculate_indicators.py, section 2: travel time reliability per      *)
(* segment. Travel times are whole seconds, present in every trip. A       *)
(* standard deviation is held as the number under its square root.         *)

\* the segments, in the order groupby sorts their keys
SegmentKeyOrder ==
    <<<<"Red", 0, 70061, 70063>>, <<"Red", 0, 70063, 70065>>, <<"Red", 1, 70061, 70063>>>>

\* a trip's key by route and direction alone
RouteDirectionKey(trip) == <<trip.route_id, trip.direction_id, 70061, 70063>>

\* groupby(['route_id', 'direction_id', 'from_stop_id', 'to_stop_id'])
SegmentKey(trip) == <<trip.route_id, trip.direction_id, trip.from_stop_id, trip.to_stop_id>>

\* the travel_time_sec column of one group
GroupTimes(trips, key) ==
    LET own == SelectSeq(trips, LAMBDA t : SegmentKey(t) = key)
    IN  [i \in DOMAIN own |-> RInt(own[i].travel_time_sec)]

\* the square root of v: of +inf it is +inf, of a missing value missing
Root(v) == [radicand |-> v]

\* 'std': sample standard deviation, missing for a single observation
SampleStd(times) ==
    LET mean == RMean(times)
        sq == [i \in DOMAIN times |-> RMul(RSub(times[i], mean), RSub(times[i], mean))]
    IN  Root(RDiv(RSumSeq(sq), RInt(Len(times) - 1)))

\* .agg(count, median, mean, std, p10, p90) of one group
SegmentStats(trips, key) ==
    LET times == GroupTimes(trips, key)
        sorted == SortRats(times)
    IN  [route_id |-> key[1], direction_id |-> key[2],
         from_stop_id |-> key[3], to_stop_id |-> key[4],
         n_observations |-> Len(times),
         median_travel_time |-> Quantile(sorted, 1, 2),
         mean_travel_time |-> RMean(times),
         std_travel_time |-> SampleStd(times),
         p10_travel_time |-> Quantile(sorted, 1, 10),
         p90_travel_time |-> Quantile(sorted, 9, 10)]

\* travel_reliability: one row per group present, in key order
SegmentAggregate(trips) ==
    LET present == SelectSeq(SegmentKeyOrder,
                             LAMBDA key : \E i \in DOMAIN trips : SegmentKey(trips[i]) = key)
    IN  [i \in DOMAIN present |-> SegmentStats(trips, present[i])]

\* std / median for a median >= 0, under the square root: radicand / median^2
TravelTimeVolatility(std, median) == Root(RDiv(std.radicand, RMul(median, median)))

\* an index forced to 0 where its denominator is 0
BufferTimeIndex_ZeroIfUndefined(p90, median) ==
    IF median = RInt(0) THEN RInt(0) ELSE RDiv(RSub(p90, median), median)

\* (p90 - median) / median
BufferTimeIndex(p90, median) == RDiv(RSub(p90, median), median)

\* the ratio the other way round
PlanningTimeIndex_Inverse(p90, p10) == RDiv(p10, p90)

\* p90 / p10
PlanningTimeIndex(p90, p10) == RDiv(p90, p10)

\* the three derived columns added to a row
WithDerivedMetrics(row) ==
    [route_id |-> row.route_id, direction_id |-> row.direction_id,
     from_stop_id |-> row.from_stop_id, to_stop_id |-> row.to_stop_id,
     n_observations |-> row.n_observations,
     median_travel_time |-> row.median_travel_time,
     mean_travel_time |-> row.mean_travel_time,
     std_travel_time |-> row.std_travel_time,
     p10_travel_time |-> row.p10_travel_time,
     p90_travel_time |-> row.p90_travel_time,
     travel_time_volatility |->
        TravelTimeVolatility(row.std_travel_time, row.median_travel_time),
     buffer_time_index |-> BufferTimeIndex(row.p90_travel_time, row.median_travel_time),
     planning_time_index |-> PlanningTimeIndex(row.p90_travel_time, row.p10_travel_time)]

MaxTrips == 4

TripRows ==
    {[route_id |-> key[1], direction_id |-> key[2], from_stop_id |-> key[3],
      to_stop_id |-> key[4], travel_time_sec |-> sec] :
        key \in SeqRange(SegmentKeyOrder), sec \in {0, 60, 90}}

InitSegments ==
    /\ travel_times \in {<<>>} \cup SeqsUpTo(TripRows, MaxTrips)
    /\ travel_reliability = <<>>
    /\ segment_benchmarks = <<>>
    /\ travel_times_with_benchmark = <<>>
    /\ otp_by_segment = <<>>
    /\ seg_pc = "loaded"

\* the trips are grouped by segment and the six statistics taken
AggregateSegments ==
    /\ seg_pc = "loaded"
    /\ travel_reliability' = SegmentAggregate(travel_times)
    /\ seg_pc' = "aggregated"
    /\ UNCHANGED <<travel_times, segment_benchmarks, travel_times_with_benchmark,
                   otp_by_segment>>

\* volatility, buffer time index and planning time index are added
DeriveReliability ==
    /\ seg_pc = "aggregated"
    /\ travel_reliability' =
        [i \in DOMAIN travel_reliability |-> WithDerivedMetrics(travel_reliability[i])]
    /\ seg_pc' = "derived"
    /\ UNCHANGED <<travel_times, segment_benchmarks, travel_times_with_benchmark,
                   otp_by_segment>>

-----------------------------------------------------------------------------
(* 02_calculate_indicators.py, section 3: on-time performance per segment *)

\* a benchmark taken over the trips of all segments
SegmentBenchmark_AllTrips(trips, key) ==
    Quantile(SortRats([i \in DOMAIN trips |-> RInt(trips[i].travel_time_sec)]), 3, 4)

\* groupby(...)['travel_time_sec'].quantile(0.75) of one group
SegmentBenchmark(trips, key) == Quantile(SortRats(GroupTimes(trips, key)), 3, 4)

\* segment_benchmarks: one row per group present, in key order
SegmentBenchmarks(trips) ==
    LET present == SelectSeq(SegmentKeyOrder,
                             LAMBDA key : \E i \in DOMAIN trips : SegmentKey(trips[i]) = key)
    IN  [i \in DOMAIN present |->
            [route_id |-> present[i][1], direction_id |-> present[i][2],
             from_stop_id |-> present[i][3], to_stop_id |-> present[i][4],
             benchmark_time |-> SegmentBenchmark(trips, present[i])]]

\* the benchmark_time a left merge on the four key columns gives a trip:
\* that of the row with the trip's key, missing when there is none
MergedBenchmark(trip, benchmarks) ==
    LET hit == SelectSeq(benchmarks,
                         LAMBDA b : <<b.route_id, b.direction_id, b.from_stop_id,
                                      b.to_stop_id>> = SegmentKey(trip))
    IN  IF hit = <<>> THEN NaN ELSE hit[1].benchmark_time

\* a trip counts only when it is below the benchmark
IsOnTime_Strict(travel_time_sec, benchmark_time) ==
    RLt(RInt(travel_time_sec), benchmark_time)

\* travel_time_sec <= benchmark_time
IsOnTime(travel_time_sec, benchmark_time) ==
    RLe(RInt(travel_time_sec), benchmark_time)

\* travel_times_with_benchmark with its is_on_time column
WithBenchmark(trips, benchmarks) ==
    [i \in DOMAIN trips |->
        LET benchmark_time == MergedBenchmark(trips[i], benchmarks)
        IN  [route_id |-> trips[i].route_id, direction_id |-> trips[i].direction_id,
             from_stop_id |-> trips[i].from_stop_id, to_stop_id |-> trips[i].to_stop_id,
             travel_time_sec |-> trips[i].travel_time_sec,
             benchmark_time |-> benchmark_time,
             is_on_time |-> IsOnTime(trips[i].travel_time_sec, benchmark_time)]]

\* groupby(...).agg({'is_on_time': 'mean'}): True counts 1, False 0
OnTimeBySegment(marked) ==
    LET present == SelectSeq(SegmentKeyOrder,
                             LAMBDA key : \E i \in DOMAIN marked : SegmentKey(marked[i]) = key)
    IN  [i \in DOMAIN present |->
            LET own == SelectSeq(marked, LAMBDA t : SegmentKey(t) = present[i])
            IN  [route_id |-> present[i][1], direction_id |-> present[i][2],
                 from_stop_id |-> present[i][3], to_stop_id |-> present[i][4],
                 on_time_performance |->
                    RMean([k \in DOMAIN own |->
                              IF own[k].is_on_time THEN RInt(1) ELSE RInt(0)])]]

\* segment_benchmarks = travel_times.groupby(...).quantile(0.75)
BenchmarkSegments ==
    /\ seg_pc = "derived"
    /\ segment_benchmarks' = SegmentBenchmarks(travel_times)
    /\ seg_pc' = "benchmarked"
    /\ UNCHANGED <<travel_times, travel_reliability, travel_times_with_benchmark,
                   otp_by_segment>>

\* the benchmark is merged back onto the trips and is_on_time is set
MarkOnTime ==
    /\ seg_pc = "benchmarked"
    /\ travel_times_with_benchmark' = WithBenchmark(travel_times, segment_benchmarks)
    /\ seg_pc' = "marked"
    /\ UNCHANGED <<travel_times, travel_reliability, segment_benchmarks, otp_by_segment>>

\* otp_by_segment: the share of on-time trips of every segment
ComputeOnTimePerformance ==
    /\ seg_pc = "marked"
    /\ otp_by_segment' = OnTimeBySegment(travel_times_with_benchmark)
    /\ seg_pc' = "otp"
    /\ UNCHANGED <<travel_times, travel_reliability, segment_benchmarks,
                   travel_times_with_benchmark>>

-----------------------------------------------------------------------------
(* Uncertainty Estimator: bootstrap confidence intervals of the station    *)
(* RSS per route. The dashboard only loads its result table                *)
(* (bootstrap_confidence_intervals.csv) and describes the method           *)
(* (pages/4_Hypothesis_Testing.py); the estimator is modelled from that    *)
(* description.                                                            *)

\* the routes in the order they are processed
RouteOrder == <<"Orange", "Red">>

\* the station values of every route, whatever the route asked for
RouteValues_AllRoutes(table, route) ==
    [i \in DOMAIN table |-> table[i].station_rss_scaled]

\* the station RSS_scaled values of one route, in table order
RouteValues(table, route) ==
    LET own == SelectSeq(table, LAMBDA r : r.route_id = route)
    IN  [i \in DOMAIN own |-> own[i].station_rss_scaled]

\* the routes of the table that have no interval yet, in processing order
PendingRoutes(table, ci) ==
    SelectSeq(RouteOrder,
              LAMBDA route : /\ route \notin DOMAIN ci
                             /\ \E i \in DOMAIN table : table[i].route_id = route)

\* a resample: the values at the drawn positions (with replacement)
Resample(values, idx) == [i \in DOMAIN idx |-> values[idx[i]]]

\* the interval of one route from its resample means (ascending)
BootstrapCI(route, means) ==
    LET lower == Quantile(means, 25, 1000)
        upper == Quantile(means, 975, 1000)
    IN  [route_id |-> route, mean_rss |-> RDiv(RSumHalves(means), RInt(Len(means))),
         ci_lower |-> lower, ci_upper |-> upper, ci_width |-> RSub(upper, lower)]

\* the pseudo-random generator: a linear congruential sequence of states
GeneratorModulus == 7
Generators == [a : {1, 3, 5}, c : {1, 2}]
NextState(gen, state) == (gen.a * state + gen.c) % GeneratorModulus

\* a run that leaves the generator in the state it finds
SeedState_KeepState(seed, state) == state

\* seeding: the generator's state is a function of the seed alone
SeedState(seed, state) == seed % GeneratorModulus

\* n positions in 1..n from successive generator states
RECURSIVE DrawIndices(_, _, _, _)
DrawIndices(gen, state, n, k) ==
    IF k = 0 THEN <<>>
    ELSE <<(NextState(gen, state) % n) + 1>>
            \o DrawIndices(gen, NextState(gen, state), n, k - 1)

RECURSIVE Advance(_, _, _)
Advance(gen, state, k) ==
    IF k = 0 THEN state ELSE Advance(gen, NextState(gen, state), k - 1)

MaxBootStations == 3
MaxResamples == 41
SmallResamples == {1, 2}
Seeds == {1, 2}

BootRows == [route_id : {"Orange", "Red"}, station_rss_scaled : {RInt(60), RInt(100)}]
SkewTable ==
    <<[route_id |-> "Orange", station_rss_scaled |-> RInt(100)],
      [route_id |-> "Red", station_rss_scaled |-> RInt(60)],
      [route_id |-> "Red", station_rss_scaled |-> RInt(100)]>>

BootStart ==
    /\ boot_run = 1
    /\ boot_route = ""
    /\ boot_last = <<>>
    /\ boot_means = <<>>
    /\ boot_ci = <<>>
    /\ boot_first = <<>>
    /\ boot_rng = 0
    /\ boot_pc = "loaded"

\* a station table, the number of resamples and the seed; any generator
InitBootstrap ==
    /\ \/ /\ boot_table \in SeqsUpTo(BootRows, MaxBootStations)
          /\ boot_B \in SmallResamples
       \/ /\ boot_table = SkewTable
          /\ boot_B \in {MaxResamples - 1, MaxResamples}
    /\ boot_seed = 1
    /\ boot_gen = [a |-> 1, c |-> 1]
    /\ BootStart

InitBootSeeded ==
    /\ boot_table \in SeqsUpTo(BootRows, MaxBootStations)
    /\ boot_B \in SmallResamples
    /\ boot_seed \in Seeds
    /\ boot_gen \in Generators
    /\ BootStart

\* a run starts by seeding the generator
StartRun ==
    /\ boot_pc = "loaded"
    /\ boot_rng' = SeedState(boot_seed, boot_rng)
    /\ boot_pc' = "seeded"
    /\ UNCHANGED <<boot_table, boot_B, boot_seed, boot_gen, boot_run, boot_route,
                   boot_last, boot_means, boot_ci, boot_first>>

\* the next route of the table is taken up
StartRoute ==
    /\ boot_pc = "seeded"
    /\ PendingRoutes(boot_table, boot_ci) # <<>>
    /\ boot_route' = PendingRoutes(boot_table, boot_ci)[1]
    /\ boot_means' = <<>>
    /\ boot_last' = <<>>
    /\ boot_pc' = "resampling"
    /\ UNCHANGED <<boot_table, boot_B, boot_seed, boot_gen, boot_rng, boot_run,
                   boot_ci, boot_first>>

\* one resample of the route, the generator's output left open: any
\* positions can be drawn
DrawResample ==
    /\ boot_pc = "resampling"
    /\ Len(boot_means) < boot_B
    /\ LET values == RouteValues(boot_table, boot_route)
       IN  \E idx \in [DOMAIN values -> DOMAIN values] :
            /\ boot_last' = Resample(values, idx)
            /\ boot_means' = InsertSorted(RMean(boot_last'), boot_means)
    /\ UNCHANGED <<boot_table, boot_B, boot_seed, boot_gen, boot_rng, boot_run,
                   boot_route, boot_ci, boot_first, boot_pc>>

\* one resample of the route, its positions taken from the generator
DrawResampleSeeded ==
    /\ boot_pc = "resampling"
    /\ Len(boot_means) < boot_B
    /\ LET values == RouteValues(boot_table, boot_route)
           idx == DrawIndices(boot_gen, boot_rng, Len(values), Len(values))
       IN  /\ boot_last' = Resample(values, idx)
           /\ boot_means' = InsertSorted(RMean(boot_last'), boot_means)
           /\ boot_rng' = Advance(boot_gen, boot_rng, Len(values))
    /\ UNCHANGED <<boot_table, boot_B, boot_seed, boot_gen, boot_run, boot_route,
                   boot_ci, boot_first, boot_pc>>

\* after B resamples the route's interval is reported
FinishRoute ==
    /\ boot_pc = "resampling"
    /\ Len(boot_means) = boot_B
    /\ boot_ci' = boot_ci @@ (boot_route :> BootstrapCI(boot_route, boot_means))
    /\ boot_means' = <<>>
    /\ boot_last' = <<>>
    /\ boot_route' = ""
    /\ boot_pc' = IF PendingRoutes(boot_table, boot_ci') = <<>> THEN "done" ELSE "seeded"
    /\ UNCHANGED <<boot_table, boot_B, boot_seed, boot_gen, boot_rng, boot_run,
                   boot_first>>

\* a second run on the same table with the same B, under some seed
RunAgain(seed) ==
    /\ boot_pc = "done"
    /\ boot_run = 1
    /\ boot_first' = [seed |-> boot_seed, ci |-> boot_ci]
    /\ boot_seed' = seed
    /\ boot_run' = 2
    /\ boot_ci' = <<>>
    /\ boot_pc' = "loaded"
    /\ UNCHANGED <<boot_table, boot_B, boot_gen, boot_rng, boot_route, boot_last,
                   boot_means>>

-----------------------------------------------------------------------------
(* ETL consolidation scripts: consolidate_speed_restrictions.py,            *)
(* consolidate_ridership.py and consolidate_passenger_survey.py. A raw file *)
(* is its rows in file order, a row a function from the columns of the     *)
(* file to text cells; the files of one run share their columns.           *)

Red == <<"R", "e", "d">>
Orange == <<"O", "r", "a", "n", "g", "e">>
Blue == <<"B", "l", "u", "e">>
Green == <<"G", "r", "e", "e", "n">>
RedLine == <<"R", "e", "d", " ", "L", "i", "n", "e">>
HeavyRail == <<"H", "e", "a", "v", "y", " ", "R", "a", "i", "l">>
LightRail == <<"L", "i", "g", "h", "t", " ", "R", "a", "i", "l">>

HEAVY_RAIL_ROUTES == <<Red, Orange, Blue>>

\* Series.isin(values)
IsIn(cell, values) == \E k \in DOMAIN values : values[k] = cell

\* str.lower() on the letters of the modelled cells
UpperCase == <<"B", "G", "H", "L", "O", "R">>
LowerCase == <<"b", "g", "h", "l", "o", "r">>
AsciiLower(c) ==
    IF \E k \in DOMAIN UpperCase : UpperCase[k] = c
    THEN LowerCase[CHOOSE k \in DOMAIN UpperCase : UpperCase[k] = c]
    ELSE c
LowerText(s) == [i \in DOMAIN s |-> AsciiLower(s[i])]

\* re.search of a literal: the text holds it somewhere
Holds(s, literal) ==
    \E i \in 1..(Len(s) - Len(literal) + 1) :
        SubSeq(s, i, i + Len(literal) - 1) = literal

\* str.contains('|'.join(alternatives), case=False): some alternative occurs
\* in the cell, letter case ignored
StrContains(cell, alternatives) ==
    \E k \in DOMAIN alternatives : Holds(LowerText(cell), LowerText(alternatives[k]))

RECURSIVE Concat(_)
\* pd.concat(dfs, ignore_index=True)
Concat(dfs) == IF dfs = <<>> THEN <<>> ELSE dfs[1] \o Concat(Tail(dfs))

\* df.sample(n=min(200, len(df)), random_state=42) of a table of at most 200
\* rows: every row once, in a shuffled order that is left out here (a bag)
SampleAll(df) ==
    [row \in SeqRange(df) |-> Cardinality({i \in DOMAIN df : df[i] = row})]

\* consolidate_speed_restrictions.py: one file, filtered only when it has a
\* route_id column
RestrictionFile(df, columns) ==
    IF "route_id" \in columns
    THEN SelectSeq(df, LAMBDA r : IsIn(r["route_id"], HEAVY_RAIL_ROUTES))
    ELSE df

\* consolidate_ridership.py: mode filter when there is a mode column, then
\* route filter on route_id or else route_name, else every row
RidershipFile(df, columns) ==
    LET by_mode == IF "mode" \in columns
                   THEN SelectSeq(df, LAMBDA r : r["mode"] = HeavyRail)
                   ELSE df
        route_col == IF "route_id" \in columns THEN "route_id"
                     ELSE IF "route_name" \in columns THEN "route_name"
                     ELSE "None"
    IN  IF route_col # "None"
        THEN SelectSeq(by_mode, LAMBDA r : IsIn(r[route_col], HEAVY_RAIL_ROUTES))
        ELSE by_mode

\* consolidate_passenger_survey.py: rows whose route_or_line, or else
\* route_id, holds a heavy-rail route name; every row without such a column
SurveyFile(df, columns) ==
    LET route_col == IF "route_or_line" \in columns THEN "route_or_line"
                     ELSE IF "route_id" \in columns THEN "route_id"
                     ELSE "None"
    IN  IF route_col # "None"
        THEN SelectSeq(df, LAMBDA r : StrContains(r[route_col], HEAVY_RAIL_ROUTES))
        ELSE df

MaxEtlFiles == 2
MaxEtlRows == 2

\* column layouts of raw files, and the rows a file of a layout may hold:
\* a row of the Red line, one of the Green line, one naming the Red line in full
Layouts ==
    {{"route_id"}, {"Line"}, {"route_name", "mode"}, {"route_or_line"}}
RouteCells == {Red, Green, RedLine}
RawRow(columns, route) ==
    [c \in columns |->
        IF c = "mode" THEN (IF route = Green THEN LightRail ELSE HeavyRail)
        ELSE route]
RawFiles(columns) ==
    {<<>>} \cup SeqsUpTo({RawRow(columns, route) : route \in RouteCells}, MaxEtlRows)

InitEtl ==
    /\ etl_columns \in Layouts
    /\ etl_files \in {<<>>} \cup SeqsUpTo(RawFiles(etl_columns), MaxEtlFiles)
    /\ etl_out = <<>>
    /\ etl_sample = <<>>
    /\ etl_pc = "start"

\* consolidate_speed_restrictions.main
ConsolidateSpeedRestrictions ==
    /\ etl_pc = "start"
    /\ IF etl_files = <<>>
       THEN UNCHANGED <<etl_out, etl_sample>>
       ELSE LET dfs == [i \in DOMAIN etl_files |->
                            RestrictionFile(etl_files[i], etl_columns)]
                result == Concat(dfs)
            IN  /\ etl_out' = result
                /\ etl_sample' = SampleAll(result)
    /\ etl_pc' = "speed_restrictions"
    /\ UNCHANGED <<etl_columns, etl_files>>

\* consolidate_ridership.main; its input is one file
ConsolidateRidership ==
    /\ etl_pc = "start"
    /\ Len(etl_files) <= 1
    /\ IF etl_files = <<>>
       THEN UNCHANGED <<etl_out, etl_sample>>
       ELSE LET df_heavy == RidershipFile(etl_files[1], etl_columns)
            IN  /\ etl_out' = df_heavy
                /\ etl_sample' = SampleAll(df_heavy)
    /\ etl_pc' = "ridership"
    /\ UNCHANGED <<etl_columns, etl_files>>

\* consolidate_passenger_survey.main; its input is one file
ConsolidatePassengerSurvey ==
    /\ etl_pc = "start"
    /\ Len(etl_files) <= 1
    /\ IF etl_files = <<>>
       THEN UNCHANGED <<etl_out, etl_sample>>
       ELSE LET df_heavy == SurveyFile(etl_files[1], etl_columns)
            IN  /\ etl_out' = df_heavy
                /\ etl_sample' = SampleAll(df_heavy)
    /\ etl_pc' = "passenger_survey"
    /\ UNCHANGED <<etl_columns, etl_files>>

-----------------------------------------------------------------------------
(* consolidate_travel_times.py: monthly files are filtered one at a time    *)
(* into temp_<month>.csv files of data/processed, which are then combined  *)
(* into one table and removed. temp_csvs is the set of temp files present, *)
(* by month, each with its rows as written.                                *)

\* the months file names begin with, in the order sorted() gives their paths
MonthOrder == <<"2024-01", "2024-02">>
MonthIndex(month) == CHOOSE k \in DOMAIN MonthOrder : MonthOrder[k] = month

\* pd.read_csv of a temp file without dtype=str: the travel_time_sec column,
\* all digits, is read as numbers
ReadTemp(rows) ==
    [i \in DOMAIN rows |->
        [route_id |-> rows[i].route_id,
         travel_time_sec |-> ToNumeric(rows[i].travel_time_sec)]]

\* df[df['route_id'].isin(HEAVY_RAIL_ROUTES)].copy()
HeavyRows(df) == SelectSeq(df, LAMBDA r : IsIn(r.route_id, HEAVY_RAIL_ROUTES))

\* sorted(glob.glob("data/processed/temp_*.csv")): the months with a temp file
TempFiles(temps) ==
    SelectSeq(MonthOrder, LAMBDA month : month \in DOMAIN temps)

\* df_heavy.to_csv(temp_csv): the month's temp file is created or overwritten
WriteTemp(temps, month, df_heavy) ==
    [m \in DOMAIN temps \cup {month} |-> IF m = month THEN df_heavy ELSE temps[m]]

MaxMonthlyFiles == 2

TripLine(route, sec) == [route_id |-> route, travel_time_sec |-> sec]
MonthlyContents ==
    {<<>>,
     <<TripLine(Red, <<"0", "6", "0">>)>>,
     <<TripLine(Red, <<"6", "0">>), TripLine(Green, <<"6", "0">>)>>,
     <<TripLine(Green, <<"9", "0">>), TripLine(Blue, <<"9", "0">>)>>}
MonthlyFiles == [month : SeqRange(MonthOrder), rows : MonthlyContents]

\* the file lists sorted() can return: months in order; files of one month
\* differ in the rest of their names
SortedFileLists ==
    {<<>>} \cup
    {files \in SeqsUpTo(MonthlyFiles, MaxMonthlyFiles) :
        \A i, j \in DOMAIN files :
            i < j => MonthIndex(files[i].month) <= MonthIndex(files[j].month)}

\* temp files an earlier run that did not reach its clean-up left behind
StaleTemps ==
    {[m \in months |-> <<TripLine(Orange, <<"7", "5">>)>>] :
        months \in SUBSET SeqRange(MonthOrder)}

InitTravelTimes ==
    /\ csv_files \in SortedFileLists
    /\ temp_csvs \in StaleTemps
    /\ file_index = 0
    /\ total_rows = 0
    /\ final_df = <<>>
    /\ tt_sample = <<>>
    /\ tt_pc = "start"

\* csv_files = sorted(glob(...)); return when there are none
FindFiles ==
    /\ tt_pc = "start"
    /\ IF csv_files = <<>>
       THEN tt_pc' = "returned" /\ UNCHANGED file_index
       ELSE tt_pc' = "filtering" /\ file_index' = 1
    /\ UNCHANGED <<csv_files, temp_csvs, total_rows, final_df, tt_sample>>

\* one pass of the loop over csv_files
FilterFile ==
    /\ tt_pc = "filtering"
    /\ file_index <= Len(csv_files)
    /\ LET month == csv_files[file_index].month
           df_heavy == HeavyRows(csv_files[file_index].rows)
       IN  /\ total_rows' = total_rows + Len(df_heavy)
           /\ temp_csvs' = WriteTemp(temp_csvs, month, df_heavy)
    /\ file_index' = file_index + 1
    /\ UNCHANGED <<csv_files, final_df, tt_sample, tt_pc>>

\* the temp files found are read, concatenated, removed; the result is saved
CombineTemps ==
    /\ tt_pc = "filtering"
    /\ file_index > Len(csv_files)
    /\ LET temp_files == TempFiles(temp_csvs)
           combined_chunks == [k \in DOMAIN temp_files |-> ReadTemp(temp_csvs[temp_files[k]])]
       IN  /\ final_df' = Concat(combined_chunks)
           /\ tt_sample' = SampleAll(final_df')
           /\ temp_csvs' = [m \in DOMAIN temp_csvs \ SeqRange(temp_files) |-> temp_csvs[m]]
    /\ tt_pc' = "done"
    /\ UNCHANGED <<csv_files, file_index, total_rows>>

-----------------------------------------------------------------------------
(* Specifications: one per pipeline stage; the other stages stay idle *)

IdleRSS == cohort = <<>> /\ rss_raw = <<>> /\ rss_scaled = <<>> /\ rss_pc = "idle"

IdleRestr ==
    /\ restrictions_parquet = <<>> /\ restrictions = <<>>
    /\ restriction_metrics = <<>> /\ restr_summary = <<>> /\ restr_pc = "idle"

IdleRw ==
    /\ ridership = <<>> /\ ridership_weights = <<>>
    /\ total_system_ridership = NaN /\ rw_pc = "idle"

IdleCts ==
    /\ station_scores = <<>> /\ cts_ridership = <<>> /\ id_to_name = <<>>
    /\ selected_route = "" /\ cts_arg = <<>> /\ merged = <<>> /\ cts_pc = "idle"

IdleResolver ==
    /\ reporting_groups = <<>> /\ station_names = <<>> /\ target_data = <<>>
    /\ rss_names = <<>> /\ name_mapping = <<>> /\ unmatched = <<>>
    /\ equity_merged = <<>> /\ res_pc = "idle"

IdleBootstrap ==
    /\ boot_table = <<>> /\ boot_B = 0 /\ boot_seed = 0 /\ boot_gen = <<>> /\ boot_rng = 0
    /\ boot_run = 0 /\ boot_route = "" /\ boot_last = <<>> /\ boot_means = <<>>
    /\ boot_ci = <<>> /\ boot_first = <<>> /\ boot_pc = "idle"

IdleSegments ==
    /\ travel_times = <<>> /\ travel_reliability = <<>> /\ segment_benchmarks = <<>>
    /\ travel_times_with_benchmark = <<>> /\ otp_by_segment = <<>> /\ seg_pc = "idle"

IdleEtl ==
    /\ etl_columns = {} /\ etl_files = <<>> /\ etl_out = <<>>
    /\ etl_sample = <<>> /\ etl_pc = "idle"

IdleTravelTimes ==
    /\ csv_files = <<>> /\ temp_csvs = <<>> /\ file_index = 0 /\ total_rows = 0
    /\ final_df = <<>> /\ tt_sample = <<>> /\ tt_pc = "idle"

FullInitRSS ==
    /\ InitRSS
    /\ IdleRestr
    /\ IdleRw
    /\ IdleCts
    /\ IdleResolver
    /\ IdleBootstrap
    /\ IdleSegments
    /\ IdleEtl
    /\ IdleTravelTimes

othersRSS ==
    <<restrVars, rwVars, ctsVars, resVars, bootVars, segVars, etlVars, ttVars>>

NextRSS ==
    \/ ComputeRaw /\ UNCHANGED othersRSS
    \/ Scale /\ UNCHANGED othersRSS

SpecRSS == FullInitRSS /\ [][NextRSS]_vars

FullInitRestr ==
    /\ IdleRSS
    /\ InitRestr
    /\ IdleRw
    /\ IdleCts
    /\ IdleResolver
    /\ IdleBootstrap
    /\ IdleSegments
    /\ IdleEtl
    /\ IdleTravelTimes

othersRestr ==
    <<rssVars, rwVars, ctsVars, resVars, bootVars, segVars, etlVars, ttVars>>

NextRestr ==
    \/ LoadRestrictions /\ UNCHANGED othersRestr
    \/ CleanRestrictions /\ UNCHANGED othersRestr
    \/ AggregateRestrictions /\ UNCHANGED othersRestr
    \/ ComputeSeverity /\ UNCHANGED othersRestr
    \/ SummariseRestrictions /\ UNCHANGED othersRestr

SpecRestr == FullInitRestr /\ [][NextRestr]_vars

FullInitRw ==
    /\ IdleRSS
    /\ IdleRestr
    /\ InitRw
    /\ IdleCts
    /\ IdleResolver
    /\ IdleBootstrap
    /\ IdleSegments
    /\ IdleEtl
    /\ IdleTravelTimes

othersRw ==
    <<rssVars, restrVars, ctsVars, resVars, bootVars, segVars, etlVars, ttVars>>

NextRw ==
    \/ AggregateRidership /\ UNCHANGED othersRw
    \/ ComputeExposureWeights /\ UNCHANGED othersRw

SpecRw == FullInitRw /\ [][NextRw]_vars

DeepDiveRoutes == {"Red", "Orange", "Blue"}

FullInitCts ==
    /\ IdleRSS
    /\ IdleRestr
    /\ IdleRw
    /\ InitCts
    /\ IdleResolver
    /\ IdleBootstrap
    /\ IdleSegments
    /\ IdleEtl
    /\ IdleTravelTimes

othersCts ==
    <<rssVars, restrVars, rwVars, resVars, bootVars, segVars, etlVars, ttVars>>

NextCts ==
    \/ \E route \in DeepDiveRoutes :
        RouteDeepDive(route) /\ UNCHANGED othersCts
    \/ CalculateCtsAllRoutes /\ UNCHANGED othersCts

SpecCts == FullInitCts /\ [][NextCts]_vars

FullInitResolver ==
    /\ IdleRSS
    /\ IdleRestr
    /\ IdleRw
    /\ IdleCts
    /\ InitResolver
    /\ IdleBootstrap
    /\ IdleSegments
    /\ IdleEtl
    /\ IdleTravelTimes

othersResolver ==
    <<rssVars, restrVars, rwVars, ctsVars, bootVars, segVars, etlVars, ttVars>>

NextResolver ==
    \/ ResolveNames /\ UNCHANGED othersResolver
    \/ ReportUnmatched /\ UNCHANGED othersResolver

SpecResolver == FullInitResolver /\ [][NextResolver]_vars

FullInitBootstrap ==
    /\ IdleRSS
    /\ IdleRestr
    /\ IdleRw
    /\ IdleCts
    /\ IdleResolver
    /\ InitBootstrap
    /\ IdleSegments
    /\ IdleEtl
    /\ IdleTravelTimes

othersBootstrap ==
    <<rssVars, restrVars, rwVars, ctsVars, resVars, segVars, etlVars, ttVars>>

NextBootstrap ==
    \/ StartRun /\ UNCHANGED othersBootstrap
    \/ StartRoute /\ UNCHANGED othersBootstrap
    \/ DrawResample /\ UNCHANGED othersBootstrap
    \/ FinishRoute /\ UNCHANGED othersBootstrap

SpecBootstrap == FullInitBootstrap /\ [][NextBootstrap]_vars

FullInitSegments ==
    /\ IdleRSS
    /\ IdleRestr
    /\ IdleRw
    /\ IdleCts
    /\ IdleResolver
    /\ IdleBootstrap
    /\ InitSegments
    /\ IdleEtl
    /\ IdleTravelTimes

othersSegments ==
    <<rssVars, restrVars, rwVars, ctsVars, resVars, bootVars, etlVars, ttVars>>

NextSegments ==
    \/ AggregateSegments /\ UNCHANGED othersSegments
    \/ DeriveReliability /\ UNCHANGED othersSegments
    \/ BenchmarkSegments /\ UNCHANGED othersSegments
    \/ MarkOnTime /\ UNCHANGED othersSegments
    \/ ComputeOnTimePerformance /\ UNCHANGED othersSegments

SpecSegments == FullInitSegments /\ [][NextSegments]_vars

FullInitEtl ==
    /\ IdleRSS
    /\ IdleRestr
    /\ IdleRw
    /\ IdleCts
    /\ IdleResolver
    /\ IdleBootstrap
    /\ IdleSegments
    /\ InitEtl
    /\ IdleTravelTimes

othersEtl ==
    <<rssVars, restrVars, rwVars, ctsVars, resVars, bootVars, segVars, ttVars>>

NextEtl ==
    \/ ConsolidateSpeedRestrictions /\ UNCHANGED othersEtl
    \/ ConsolidateRidership /\ UNCHANGED othersEtl
    \/ ConsolidatePassengerSurvey /\ UNCHANGED othersEtl

SpecEtl == FullInitEtl /\ [][NextEtl]_vars

FullInitTravelTimes ==
    /\ IdleRSS
    /\ IdleRestr
    /\ IdleRw
    /\ IdleCts
    /\ IdleResolver
    /\ IdleBootstrap
    /\ IdleSegments
    /\ IdleEtl
    /\ InitTravelTimes

othersTravelTimes ==
    <<rssVars, restrVars, rwVars, ctsVars, resVars, bootVars, segVars, etlVars>>

NextTravelTimes ==
    \/ FindFiles /\ UNCHANGED othersTravelTimes
    \/ FilterFile /\ UNCHANGED othersTravelTimes
    \/ CombineTemps /\ UNCHANGED othersTravelTimes

SpecTravelTimes == FullInitTravelTimes /\ [][NextTravelTimes]_vars

FullInitBootSeeded ==
    /\ IdleRSS
    /\ IdleRestr
    /\ IdleRw
    /\ IdleCts
    /\ IdleResolver
    /\ InitBootSeeded
    /\ IdleSegments
    /\ IdleEtl
    /\ IdleTravelTimes

NextBootSeeded ==
    \/ StartRun /\ UNCHANGED othersBootstrap
    \/ StartRoute /\ UNCHANGED othersBootstrap
    \/ DrawResampleSeeded /\ UNCHANGED othersBootstrap
    \/ FinishRoute /\ UNCHANGED othersBootstrap
    \/ \E seed \in Seeds : RunAgain(seed) /\ UNCHANGED othersBootstrap

SpecBootSeeded == FullInitBootSeeded /\ [][NextBootSeeded]_vars

-----------------------------------------------------------------------------
(* RSS composer claims *)

Scaled == rss_pc = "scaled"
RawLo == RMin(SeqRange(rss_raw))
RawHi == RMax(SeqRange(rss_raw))
ExampleRaw == <<RInt(-1), RInt(0), RInt(2)>>

\* C1: in a scored cohort with at least 2 distinct RSS_raw values every
\* RSS_scaled is 60 + 40*(RSS_raw - min)/(max - min), lies in [60,100], is
\* exactly 60 for the minimum and exactly 100 for the maximum RSS_raw; and
\* RSS_raw [-1, 0, 2] gives [60.0, 73.3, 100.0] to one decimal.
C1_ScaledRange ==
    (Scaled /\ RawLo # RawHi) =>
        /\ \A i \in DOMAIN rss_raw :
            /\ IsFinite(rss_scaled[i])
            /\ RLe(RInt(60), rss_scaled[i]) /\ RLe(rss_scaled[i], RInt(100))
            /\ RMul(RSub(rss_scaled[i], RInt(60)), RSub(RawHi, RawLo))
                 = RMul(RInt(40), RSub(rss_raw[i], RawLo))
            /\ (rss_raw[i] = RawLo => rss_scaled[i] = RInt(60))
            /\ (rss_raw[i] = RawHi => rss_scaled[i] = RInt(100))
        /\ (rss_raw = ExampleRaw =>
                [i \in 1..3 |-> RoundTenths(rss_scaled[i])] = <<600, 733, 1000>>)

C1_Witness ==
    /\ Scaled
    /\ rss_raw = ExampleRaw
    /\ rss_scaled = <<RInt(60), Rat(220, 3), RInt(100)>>

\* C2: scaling preserves the order of RSS_raw within a scored cohort with at
\* least 2 distinct values: smaller raw gives strictly smaller scaled, equal
\* raw gives equal scaled.
C2_RankOrder ==
    (Scaled /\ RawLo # RawHi) =>
        \A a, b \in DOMAIN rss_raw :
            /\ (RLt(rss_raw[a], rss_raw[b]) => RLt(rss_scaled[a], rss_scaled[b]))
            /\ (rss_raw[a] = rss_raw[b] => rss_scaled[a] = rss_scaled[b])

C2_Witness ==
    /\ Scaled
    /\ \E a, b, c \in DOMAIN rss_raw :
        /\ a # b /\ rss_raw[a] = rss_raw[b]
        /\ RLt(rss_raw[c], RInt(0)) /\ RLt(rss_raw[c], rss_raw[a])
        /\ RLt(rss_scaled[c], rss_scaled[a])

C4_Weights ==
    /\ Len(Feature) = 5 /\ Cardinality(SeqRange(Feature)) = 5
    /\ RSumSeq(LiteratureWeight) = RInt(1)
    /\ \A k \in DOMAIN Feature :
        RLt(RInt(0), SignedWeight(k)) <=> Feature[k] = "on_time_performance"
    /\ rss_pc \in {"raw", "scaled"} =>
        \A i \in DOMAIN cohort :
            rss_raw[i] = Rat(  25 * cohort[i]["on_time_performance"]
                             - 25 * cohort[i]["travel_time_volatility"]
                             - 25 * cohort[i]["buffer_time_index"]
                             - 15 * cohort[i]["median_travel_time"]
                             - 10 * cohort[i]["total_miles_restricted"], 100)

C4_Witness ==
    /\ rss_pc = "raw"
    /\ \E i \in DOMAIN cohort :
        /\ cohort[i]["median_travel_time"] = 2
        /\ rss_raw[i] = Rat(-3, 10)
    /\ \E i \in DOMAIN cohort :
        /\ \A f \in SeqRange(Feature) : cohort[i][f] # 0
        /\ rss_raw[i] = RInt(1)

-----------------------------------------------------------------------------
(* Restriction indicator claims *)

RestrDone == restr_pc = "done"

\* the speed each text cell of the input stands for; -1 for a missing or
\* unparseable cell
SpeedOfText(txt) ==
    CASE txt = <<"1", "0">> -> 10
      [] txt = <<"2", "5">> -> 25
      [] txt = <<"4", "0">> -> 40
      [] txt = <<"6", "0">> -> 60
      [] OTHER -> -1

\* the parseable speeds of a line's records in the input file, in row order
KnownSpeeds(line) ==
    LET own == SelectSeq(restrictions_parquet,
                         LAMBDA r : r.Line = line /\ SpeedOfText(r.Restriction_Speed_MPH) >= 0)
    IN  [i \in DOMAIN own |-> SpeedOfText(own[i].Restriction_Speed_MPH)]

RECURSIVE IntSum(_)
IntSum(s) == IF s = <<>> THEN 0 ELSE s[1] + IntSum(Tail(s))

\* C6: every line's severity_index is 1 - clip(avg_speed_mph / 50, 0, 1): it
\* lies in [0,1], is 0.5 for an average speed of 25 and 0 for any average
\* speed of 50 or more (60 included).
C6_Severity ==
    RestrDone =>
        \A line \in DOMAIN restriction_metrics :
            LET m == restriction_metrics[line]
            IN  /\ IsFinite(m.severity_index)
                /\ RLe(RInt(0), m.severity_index) /\ RLe(m.severity_index, RInt(1))
                /\ (IsFinite(m.avg_speed_mph) /\ RLe(m.avg_speed_mph, RInt(50)) =>
                        RMul(m.severity_index, RInt(50)) = RSub(RInt(50), m.avg_speed_mph))
                /\ (m.avg_speed_mph = RInt(25) => m.severity_index = Rat(1, 2))
                /\ (RLe(RInt(50), m.avg_speed_mph) => m.severity_index = RInt(0))

C6_Witness ==
    /\ RestrDone
    /\ \E a, b \in DOMAIN restriction_metrics :
        /\ restriction_metrics[a].avg_speed_mph = RInt(25)
        /\ restriction_metrics[a].severity_index = Rat(1, 2)
        /\ restriction_metrics[b].avg_speed_mph = RInt(60)
        /\ restriction_metrics[b].severity_index = RInt(0)

\* C7: a line none of whose records has a parseable speed gets a missing
\* avg_speed_mph and severity_index exactly 1; on a line where only some
\* speeds are missing, mean and min are those of the parseable speeds.
C7_MissingSpeed ==
    RestrDone =>
        /\ DOMAIN restriction_metrics = LinesOf(restrictions_parquet)
        /\ \A line \in DOMAIN restriction_metrics :
            LET m == restriction_metrics[line]
                known == KnownSpeeds(line)
            IN  IF known = <<>>
                THEN /\ IsNaN(m.avg_speed_mph)
                     /\ IsNaN(m.min_speed_mph)
                     /\ m.severity_index = RInt(1)
                ELSE /\ m.avg_speed_mph = Rat(IntSum(known), Len(known))
                     /\ m.min_speed_mph \in {RInt(v) : v \in SeqRange(known)}
                     /\ \A v \in SeqRange(known) : m.min_speed_mph.n <= v

C7_Witness ==
    /\ RestrDone
    /\ \E a, b \in DOMAIN restriction_metrics :
        /\ KnownSpeeds(a) = <<>>
        /\ restriction_metrics[a].severity_index = RInt(1)
        /\ Len(KnownSpeeds(b)) = 1
        /\ Len(LineSpeeds(restrictions, b)) = 2
        /\ restriction_metrics[b].avg_speed_mph = RInt(40)

-----------------------------------------------------------------------------
(* Ridership exposure claims *)

\* boardings plus alightings of all records of a group, from the input table
GroupRiders(key) ==
    LET own == GroupRows(ridership, key)
    IN  IntSum([i \in DOMAIN own |-> own[i].total_ons + own[i].total_offs])

\* C5: when the grand total of avg_daily_ridership is non-zero, every
\* (route_id, time_period_name) group's exposure_weight is its
\* avg_daily_ridership divided by the sum of avg_daily_ridership over all
\* groups, and the exposure weights of all groups sum to 1.
C5_ExposureSumsToOne ==
    (rw_pc = "done" /\ total_system_ridership # RInt(0)) =>
        /\ DOMAIN ridership_weights = GroupKeys(ridership)
        /\ \A key \in DOMAIN ridership_weights :
            LET w == ridership_weights[key]
            IN  /\ IsFinite(w.exposure_weight)
                /\ RMul(w.exposure_weight, total_system_ridership) = w.avg_daily_ridership
        /\ RSumOver(ridership_weights, DOMAIN ridership_weights, "exposure_weight") = RInt(1)
        /\ \A a, b \in DOMAIN ridership_weights :
            \* shares are in the ratio of the groups' daily riders
            ridership_weights[a].exposure_weight.n * ridership_weights[b].exposure_weight.d
                * GroupRiders(b) * ridership_weights[a].number_service_days.n
            = ridership_weights[b].exposure_weight.n * ridership_weights[a].exposure_weight.d
                * GroupRiders(a) * ridership_weights[b].number_service_days.n

C5_Witness ==
    /\ rw_pc = "done"
    /\ Cardinality(DOMAIN ridership_weights) = 3
    /\ \E a, b \in DOMAIN ridership_weights :
        /\ ridership_weights[a].exposure_weight = Rat(1, 2)
        /\ ridership_weights[b].exposure_weight = Rat(1, 8)

-----------------------------------------------------------------------------
(* Station stress (CTS) claims *)

CtsDone == cts_pc = "done"

\* C8: every output row of calculate_cts has variability_positive strictly
\* greater than 0, whatever the sign and spread of the volatilities.
C8_VariabilityPositive ==
    CtsDone =>
        \A i \in DOMAIN merged :
            /\ IsFinite(merged[i].variability_positive)
            /\ RLt(RInt(0), merged[i].variability_positive)

C8_Witness ==
    /\ CtsDone
    /\ \E i, j \in DOMAIN merged :
        /\ merged[i].travel_time_volatility = RInt(-2)
        /\ merged[i].variability_positive = RInt(1)
        /\ merged[j].travel_time_volatility = Rat(3, 10)
        /\ merged[j].variability_positive = Rat(33, 10)

\* the smallest volatility among the output rows of one route
RouteMinVol(route) ==
    RMin({merged[i].travel_time_volatility :
            i \in {k \in DOMAIN merged : merged[k].route_id = route}})

\* C9: every output row's variability_positive is its volatility - m + 1 if
\* m < 0 and its volatility + 1 otherwise, m being the smallest volatility
\* among the output rows of the row's own route, also when the station
\* table passed to calculate_cts holds several routes.
C9_ShiftPerRoute ==
    CtsDone =>
        \A i \in DOMAIN merged :
            LET m == RouteMinVol(merged[i].route_id)
                vol == merged[i].travel_time_volatility
            IN  merged[i].variability_positive =
                    IF RLt(m, RInt(0)) THEN RAdd(RSub(vol, m), RInt(1))
                    ELSE RAdd(vol, RInt(1))

\* the same statement for the calls Route Deep Dive makes (one route's stations)
ShiftPerRouteInDeepDive ==
    (CtsDone /\ selected_route # "") =>
        \A i \in DOMAIN merged :
            LET m == RouteMinVol(merged[i].route_id)
                vol == merged[i].travel_time_volatility
            IN  merged[i].variability_positive =
                    IF RLt(m, RInt(0)) THEN RAdd(RSub(vol, m), RInt(1))
                    ELSE RAdd(vol, RInt(1))

\* the documented capacity of a route
DocumentedCapacity(route) ==
    CASE route = "Red" -> 1300
      [] route = "Orange" -> 1000
      [] route = "Blue" -> 900
      [] route \in {"Green", "Green-B", "Green-C", "Green-D", "Green-E"} -> 300
      [] route = "Mattapan" -> 100

\* average_flow of the AM_PEAK and PM_PEAK rows of a route's station, in the
\* ridership table passed in
PeakFlows(route, stop) ==
    LET own == SelectSeq(cts_ridership,
                         LAMBDA r : /\ r.route_id = route /\ r.stop_name = stop
                                    /\ r.time_period_name \in {"AM_PEAK", "PM_PEAK"})
    IN  [i \in DOMAIN own |-> own[i].average_flow.n]

\* C10: every output row's load_factor is the mean average_flow of its
\* station's AM_PEAK and PM_PEAK rows on its route divided by the route's
\* fixed capacity (Red 1300, Orange 1000, Blue 900, Green branches 300,
\* Mattapan 100), and its CTS is load_factor * variability_positive
\* (1.2 * 1.3 = 1.56).
C10_CtsFormula ==
    /\ \A route \in CapacityRoutes : CAPACITY_MAP[route] = DocumentedCapacity(route)
    /\ CtsDone =>
        \A i \in DOMAIN merged :
            LET row == merged[i]
                flows == PeakFlows(row.route_id, row.station_name)
            IN  /\ flows # <<>>
                /\ row.route_id \in CapacityRoutes =>
                    /\ row.capacity = RInt(DocumentedCapacity(row.route_id))
                    /\ row.load_factor =
                         Rat(IntSum(flows), Len(flows) * DocumentedCapacity(row.route_id))
                /\ row.CTS = RMul(row.load_factor, row.variability_positive)
                /\ (row.load_factor = Rat(12, 10) /\ row.variability_positive = Rat(13, 10)
                        => row.CTS = Rat(156, 100))

C10_Witness ==
    /\ CtsDone
    /\ \E i, j \in DOMAIN merged :
        /\ merged[i].route_id = "Orange"
        /\ Len(PeakFlows("Orange", merged[i].station_name)) = 2
        /\ merged[i].load_factor = Rat(12, 10)
        /\ merged[i].variability_positive = Rat(13, 10)
        /\ merged[i].CTS = Rat(156, 100)
        /\ merged[j].route_id = "Mattapan"
        /\ merged[j].load_factor = Rat(1, 2)

\* the station row's stop id has a name in id_to_name
HasStationName(r) == Str(r.from_stop_id) \in DOMAIN id_to_name

\* the ridership table has an AM_PEAK or PM_PEAK row of the row's route at the
\* station the row's stop id names
HasPeakRidership(r) ==
    HasStationName(r) /\ PeakFlows(r.route_id, id_to_name[Str(r.from_stop_id)]) # <<>>

\* C11: the output rows of calculate_cts are exactly the station rows passed
\* in whose stop id has a name in id_to_name and whose route and station
\* name have at least one AM_PEAK or PM_PEAK ridership row, once each and in
\* input order; every other row is left out, and no output row has a
\* missing average_flow.
C11_InnerJoin ==
    CtsDone =>
        LET kept == SelectSeq(cts_arg, HasPeakRidership)
        IN  /\ Len(merged) = Len(kept)
            /\ \A i \in DOMAIN merged :
                /\ merged[i].route_id = kept[i].route_id
                /\ merged[i].from_stop_id = Str(kept[i].from_stop_id)
                /\ merged[i].travel_time_volatility = kept[i].travel_time_volatility
                /\ IsFinite(merged[i].average_flow)

\* one row kept, one dropped for an id without a name, or for a station
\* whose only ridership row on the route is OFF_PEAK
C11_Witness ==
    /\ CtsDone
    /\ Len(merged) = 1
    /\ Len(cts_arg) = 2
    /\ \E i, j \in DOMAIN cts_arg :
        /\ HasPeakRidership(cts_arg[i])
        /\ HasStationName(cts_arg[j])
        /\ ~HasPeakRidership(cts_arg[j])
        /\ \E k \in DOMAIN cts_ridership :
            /\ cts_ridership[k].route_id = cts_arg[j].route_id
            /\ cts_ridership[k].stop_name = id_to_name[Str(cts_arg[j].from_stop_id)]
            /\ cts_ridership[k].time_period_name = "OFF_PEAK"

\* a row whose stop id has no name is left out
C11_WitnessUnnamed ==
    /\ CtsDone
    /\ Len(merged) = 1
    /\ \E j \in DOMAIN cts_arg : ~HasStationName(cts_arg[j])

-----------------------------------------------------------------------------
(* Station name resolver claims *)

ResMapped == res_pc \in {"mapped", "done"}
ResDone == res_pc = "done"

\* the source (survey) names and the target (RSS station) names
SourceNames == SeqRange(reporting_groups)
TargetNames == SeqRange(station_names)

\* the targets a source name could be matched to at each step
CaseMatches(s) == {r \in TargetNames : Lower(r) = Lower(s)}
Similarity(s, r) == ratio(r, s)
FuzzyMatches(s) == {r \in TargetNames : RLe(Rat(8, 10), Similarity(s, r))}
BestFuzzy(s) ==
    {r \in FuzzyMatches(s) :
        \A q \in FuzzyMatches(s) : RLe(Similarity(s, q), Similarity(s, r))}
IsMapped(s) == s \in DOMAIN name_mapping

\* C12: a source name with an exact target is mapped to it; otherwise one
\* with a case-insensitively equal target is mapped to such a target;
\* otherwise it is mapped only to a target of similarity >= 0.8. A fuzzy
\* candidate never takes the place of an exact or case-insensitive one.
C12_Precedence ==
    ResMapped =>
        \A s \in SourceNames :
            /\ s \in TargetNames => IsMapped(s) /\ name_mapping[s] = s
            /\ (s \notin TargetNames /\ CaseMatches(s) # {})
                    => IsMapped(s) /\ name_mapping[s] \in CaseMatches(s)
            /\ (s \notin TargetNames /\ CaseMatches(s) = {} /\ IsMapped(s))
                    => name_mapping[s] \in FuzzyMatches(s)

\* a name with a case-insensitive target and a better-scoring fuzzy one
C12_Witness ==
    /\ ResMapped
    /\ \E s \in SourceNames :
        /\ s \notin TargetNames
        /\ IsMapped(s) /\ name_mapping[s] \in CaseMatches(s)
        /\ \E r \in FuzzyMatches(s) :
            /\ r \notin CaseMatches(s)
            /\ RLt(Similarity(s, name_mapping[s]), Similarity(s, r))

\* C13: every source name is in exactly one of the mapping and the
\* unmatched report; a source name without an exact, a case-insensitive or
\* a >= 0.8 similar target is unmatched; every mapped value is a target name.
C13_MappedOrUnmatched ==
    ResDone =>
        /\ \A s \in SourceNames : IsMapped(s) # (s \in SeqRange(unmatched))
        /\ DOMAIN name_mapping \cup SeqRange(unmatched) \subseteq SourceNames
        /\ \A s \in SourceNames :
            (s \notin TargetNames /\ CaseMatches(s) = {} /\ FuzzyMatches(s) = {})
                => ~IsMapped(s) /\ s \in SeqRange(unmatched)
        /\ \A s \in DOMAIN name_mapping : name_mapping[s] \in TargetNames

\* one name mapped by a non-exact step, one unmatched although a target
\* resembles it (similarity above 0, below 0.8)
C13_Witness ==
    /\ ResDone
    /\ \E s, u \in SourceNames :
        /\ IsMapped(s) /\ name_mapping[s] # s /\ s \notin SeqRange(unmatched)
        /\ ~IsMapped(u) /\ u \in SeqRange(unmatched)
        /\ \E r \in TargetNames : RLt(RInt(0), Similarity(u, r))

\* C14: every source name left without a match and every target name that
\* no source name was mapped to is listed in a reported unmatched set.
C14_BothSidesReported ==
    ResDone =>
        /\ \A s \in SourceNames : ~IsMapped(s) => s \in SeqRange(unmatched)
        /\ \A r \in TargetNames :
            (\A s \in DOMAIN name_mapping : name_mapping[s] # r)
                => r \in SeqRange(unmatched)

\* the source side of it
SourceSideReported ==
    ResDone => \A s \in SourceNames : ~IsMapped(s) => s \in SeqRange(unmatched)

\* C15: no two distinct source names are mapped to the same target name.
C15_OneToOne ==
    ResMapped =>
        \A s1, s2 \in DOMAIN name_mapping :
            s1 # s2 => name_mapping[s1] # name_mapping[s2]

\* the rows of a name column in every other order, and with each name once
Rearranged(column) ==
    {[i \in DOMAIN column |-> column[p[i]]] :
        p \in {q \in [DOMAIN column -> DOMAIN column] :
                    \A i, j \in DOMAIN column : q[i] = q[j] => i = j}}
        \cup {Unique(column)}

LeastName(S) == CHOOSE x \in S : \A y \in S \ {x} : StrLt(x, y)
GreatestName(S) == CHOOSE x \in S : \A y \in S \ {x} : StrLt(y, x)

\* C16: the mapping depends on the two name sets only, not on the order or
\* multiplicity of the rows they come from; among several case-insensitive
\* targets the lexically least is chosen, among several fuzzy targets of
\* equal best similarity the lexically greatest.
C16_Deterministic ==
    ResMapped =>
        /\ \A g \in Rearranged(reporting_groups) :
            PageMapping(g, station_names) = name_mapping
        /\ \A t \in Rearranged(station_names) :
            PageMapping(reporting_groups, t) = name_mapping
        /\ \A s \in DOMAIN name_mapping :
            /\ (s \notin TargetNames /\ CaseMatches(s) # {})
                    => name_mapping[s] = LeastName(CaseMatches(s))
            /\ (s \notin TargetNames /\ CaseMatches(s) = {})
                    => name_mapping[s] = GreatestName(BestFuzzy(s))

\* both kinds of tie in rows that list the tied targets in descending order
C16_Witness ==
    /\ ResMapped
    /\ \E i \in DOMAIN station_names :
        /\ i + 1 \in DOMAIN station_names
        /\ StrLt(station_names[i + 1], station_names[i])
    /\ \E s \in DOMAIN name_mapping :
        /\ s \notin TargetNames
        /\ \/ Cardinality(CaseMatches(s)) = 2
           \/ CaseMatches(s) = {} /\ Cardinality(BestFuzzy(s)) = 2

C16_WitnessFuzzyTie ==
    /\ ResMapped
    /\ \E s \in DOMAIN name_mapping :
        /\ s \notin TargetNames /\ CaseMatches(s) = {}
        /\ Cardinality(BestFuzzy(s)) = 2
        /\ name_mapping[s] # LeastName(BestFuzzy(s))

C16_WitnessBestScore ==
    /\ ResMapped
    /\ \E s \in DOMAIN name_mapping :
        /\ s \notin TargetNames /\ CaseMatches(s) = {}
        /\ Cardinality(FuzzyMatches(s)) = 2 /\ Cardinality(BestFuzzy(s)) = 1
        /\ name_mapping[s] # GreatestName(FuzzyMatches(s))

-----------------------------------------------------------------------------
(* Uncertainty Estimator claims *)

SecondRunDone == boot_pc = "done" /\ boot_run = 2

C17_WitnessOtherSeed ==
    /\ SecondRunDone
    /\ boot_first.seed # boot_seed
    /\ boot_ci # boot_first.ci

\* the station values of a route in the table
StationValues(route) ==
    {boot_table[i].station_rss_scaled :
        i \in {k \in DOMAIN boot_table : boot_table[k].route_id = route}}
StationCount(route) == Cardinality({k \in DOMAIN boot_table : boot_table[k].route_id = route})

\* every resample has the route's station count and only the route's values
ResampleOfOwnRoute ==
    (boot_pc = "resampling" /\ boot_last # <<>>) =>
        /\ Len(boot_last) = StationCount(boot_route)
        /\ \A k \in DOMAIN boot_last : boot_last[k] \in StationValues(boot_route)

-----------------------------------------------------------------------------
(* Travel time reliability claims *)

SegDerived == seg_pc = "derived"
SegAggregated == seg_pc \in {"aggregated", "derived"}
PlusInf == [n |-> 1, d |-> 0]

\* C19: a segment whose median travel time is 0 has a not-a-number or
\* infinite volatility and buffer_time_index, and a segment whose p10 is 0
\* has a not-a-number or infinite planning_time_index; none of the three is
\* 0 when its denominator is 0.
C19_UndefinedRatios ==
    SegDerived =>
        \A i \in DOMAIN travel_reliability :
            LET row == travel_reliability[i]
            IN  /\ row.median_travel_time = RInt(0) =>
                    /\ ~IsFinite(row.travel_time_volatility.radicand)
                    /\ ~IsFinite(row.buffer_time_index)
                /\ row.p10_travel_time = RInt(0) =>
                    ~IsFinite(row.planning_time_index)

\* a segment with median 0 and p10 0 whose three indices are +inf
C19_Witness ==
    /\ SegDerived
    /\ \E i \in DOMAIN travel_reliability :
        LET row == travel_reliability[i]
        IN  /\ row.median_travel_time = RInt(0)
            /\ row.p10_travel_time = RInt(0)
            /\ row.travel_time_volatility = Root(PlusInf)
            /\ row.buffer_time_index = PlusInf
            /\ row.planning_time_index = PlusInf

\* a segment with p10 0 and a median above 0
C19_WitnessP10 ==
    /\ SegDerived
    /\ \E i \in DOMAIN travel_reliability :
        LET row == travel_reliability[i]
        IN  /\ row.p10_travel_time = RInt(0)
            /\ RLt(RInt(0), row.median_travel_time)
            /\ IsFinite(row.buffer_time_index)
            /\ row.planning_time_index = PlusInf

\* a segment of zeros only: 0 / 0 is not a number
C19_WitnessNaN ==
    /\ SegDerived
    /\ \E i \in DOMAIN travel_reliability :
        LET row == travel_reliability[i]
        IN  /\ row.n_observations = 2
            /\ row.median_travel_time = RInt(0)
            /\ row.travel_time_volatility = Root(NaN)
            /\ row.buffer_time_index = NaN
            /\ row.planning_time_index = NaN

\* the key columns of a trip or of an output record
KeyOf(r) == <<r.route_id, r.direction_id, r.from_stop_id, r.to_stop_id>>
InputKeys == {KeyOf(travel_times[i]) : i \in DOMAIN travel_times}
TripsWithKey(key) == Cardinality({i \in DOMAIN travel_times : KeyOf(travel_times[i]) = key})

\* C20: the aggregator's output has exactly one record per distinct
\* (route_id, direction_id, from_stop_id, to_stop_id) key of the input, its
\* n_observations is the number of input trips with that key and at least
\* 1, the n_observations sum to the number of input trips, and an empty
\* input gives an empty output.
C20_OneRecordPerSegment ==
    SegAggregated =>
        /\ {KeyOf(travel_reliability[i]) : i \in DOMAIN travel_reliability} = InputKeys
        /\ Len(travel_reliability) = Cardinality(InputKeys)
        /\ \A i \in DOMAIN travel_reliability :
            /\ travel_reliability[i].n_observations
                    = TripsWithKey(KeyOf(travel_reliability[i]))
            /\ travel_reliability[i].n_observations >= 1
        /\ IntSum([i \in DOMAIN travel_reliability |->
                        travel_reliability[i].n_observations]) = Len(travel_times)
        /\ travel_times = <<>> => travel_reliability = <<>>

\* two segments that differ in their stops only, one of them with several trips
C20_Witness ==
    /\ SegAggregated
    /\ Len(travel_times) = 4
    /\ \E i, j \in DOMAIN travel_reliability :
        /\ travel_reliability[i].route_id = travel_reliability[j].route_id
        /\ travel_reliability[i].direction_id = travel_reliability[j].direction_id
        /\ travel_reliability[i].from_stop_id # travel_reliability[j].from_stop_id
        /\ travel_reliability[i].n_observations = 3
        /\ travel_reliability[j].n_observations = 1

\* the empty trip table
C20_WitnessEmpty == SegAggregated /\ travel_times = <<>> /\ travel_reliability = <<>>

-----------------------------------------------------------------------------
(* Restriction table claims *)

RestrCleaned == restr_pc \in {"cleaned", "aggregated", "done", "summarised"}
RestrSummarised == restr_pc = "summarised"

\* C21: no stage changes a table it received as input; for the Restriction
\* Indicator Builder: once it has run, the restriction table it loaded holds
\* the columns and values it was loaded with.
C21_InputUnchanged ==
    RestrCleaned => restrictions = restrictions_parquet

\* C24: every restriction record's duration_days is cleared date - reported
\* date in days when the record has a cleared date, and cutoff - reported
\* date when it has none, the cutoff being the record's calendar date.
C24_Duration ==
    RestrCleaned =>
        \A i \in DOMAIN restrictions :
            LET r == restrictions[i]
            IN  r.duration_days =
                    IF IsNaN(r.Date_Restriction_Cleared)
                    THEN RSub(r.Calendar_Date, r.Date_Restriction_Reported)
                    ELSE RSub(r.Date_Restriction_Cleared, r.Date_Restriction_Reported)

\* the records of a line in the input file, and the ids they carry
InputRecords(line) ==
    {i \in DOMAIN restrictions_parquet : restrictions_parquet[i].Line = line}
InputIds(line) == {restrictions_parquet[i].ID : i \in InputRecords(line)}

\* C25: every line's n_restrictions is the number of distinct restriction
\* ids among the line's records, so it is at most the number of those
\* records, and the summary's total_restrictions is the sum of the lines'
\* n_restrictions.
C25_DistinctIds ==
    RestrSummarised =>
        /\ DOMAIN restriction_metrics = LinesOf(restrictions_parquet)
        /\ \A line \in DOMAIN restriction_metrics :
            /\ restriction_metrics[line].n_restrictions = Cardinality(InputIds(line))
            /\ restriction_metrics[line].n_restrictions <= Cardinality(InputRecords(line))
        /\ restr_summary.total_restrictions =
            Cardinality({<<restrictions_parquet[i].Line, restrictions_parquet[i].ID>> :
                            i \in DOMAIN restrictions_parquet})

\* one id on two calendar days of a line counts once; two lines, two in total
C25_Witness ==
    /\ RestrSummarised
    /\ restr_summary.total_restrictions = 2
    /\ \E line \in DOMAIN restriction_metrics :
        /\ Cardinality(InputRecords(line)) = 2
        /\ restriction_metrics[line].n_restrictions = 1

-----------------------------------------------------------------------------
(* ETL consolidation claims *)

EtlDone == etl_pc \in {"speed_restrictions", "ridership", "passenger_survey"}

\* the cell of a row that names its route
RouteColumns == {"route_id", "route_name", "route_or_line", "Line"}
RouteOf(row) == row[CHOOSE c \in DOMAIN row : c \in RouteColumns]

\* C22: every row written to a consolidated output belongs to one of the
\* routes Red, Orange or Blue, whatever columns the input files have.
C22_HeavyRailOnly ==
    EtlDone =>
        \A i \in DOMAIN etl_out : RouteOf(etl_out[i]) \in {Red, Orange, Blue, RedLine}

\* with a route_id column all three scripts keep rows of the three routes only
RouteIdFiltered ==
    (EtlDone /\ "route_id" \in etl_columns) =>
        \A i \in DOMAIN etl_out : RouteOf(etl_out[i]) \in {Red, Orange, Blue, RedLine}

-----------------------------------------------------------------------------
(* On-time performance and percentile claims *)

SegOtp == seg_pc = "otp"

\* the input trips of a segment and the 75th percentile of their travel times
OwnTrips(key) == {i \in DOMAIN travel_times : KeyOf(travel_times[i]) = key}
OwnTimes(key) ==
    LET own == SelectSeq(travel_times, LAMBDA t : KeyOf(t) = key)
    IN  [i \in DOMAIN own |-> RInt(own[i].travel_time_sec)]
Percentile75(key) == Quantile(SortRats(OwnTimes(key)), 3, 4)

\* the trips of a segment at or below the segment's 75th percentile
OnTimeTrips(key) ==
    {i \in OwnTrips(key) : RLe(RInt(travel_times[i].travel_time_sec), Percentile75(key))}

\* C23: every segment's benchmark is the 75th percentile of that segment's
\* own travel times, a trip is on time exactly when its travel time is at
\* most its segment's benchmark, and on_time_performance is the number of
\* on-time trips of the segment divided by the number of its trips.
C23_OnTimePerformance ==
    SegOtp =>
        /\ {KeyOf(otp_by_segment[j]) : j \in DOMAIN otp_by_segment} = InputKeys
        /\ \A j \in DOMAIN segment_benchmarks :
            segment_benchmarks[j].benchmark_time = Percentile75(KeyOf(segment_benchmarks[j]))
        /\ DOMAIN travel_times_with_benchmark = DOMAIN travel_times
        /\ \A i \in DOMAIN travel_times :
            LET row == travel_times_with_benchmark[i]
            IN  /\ KeyOf(row) = KeyOf(travel_times[i])
                /\ row.benchmark_time = Percentile75(KeyOf(travel_times[i]))
                /\ row.is_on_time <=> i \in OnTimeTrips(KeyOf(travel_times[i]))
        /\ \A j \in DOMAIN otp_by_segment :
            LET key == KeyOf(otp_by_segment[j])
            IN  otp_by_segment[j].on_time_performance =
                    Rat(Cardinality(OnTimeTrips(key)), Cardinality(OwnTrips(key)))

\* two segments with benchmarks of their own: half of the trips of one are
\* on time, all of the other
C23_Witness ==
    /\ SegOtp
    /\ \E a, b \in DOMAIN otp_by_segment :
        /\ otp_by_segment[a].on_time_performance = Rat(1, 2)
        /\ otp_by_segment[b].on_time_performance = RInt(1)
        /\ segment_benchmarks[a].benchmark_time # segment_benchmarks[b].benchmark_time

\* the rows of a segment marked on time
MarkedOnTime(key) ==
    {i \in DOMAIN travel_times_with_benchmark :
        /\ KeyOf(travel_times_with_benchmark[i]) = key
        /\ travel_times_with_benchmark[i].is_on_time}

\* C27: of a segment with n >= 1 observations at least floor(0.75 * (n - 1)) + 1
\* trips are on time, so 0 < on_time_performance <= 1, and
\* on_time_performance is 1 when n = 1 or all travel times of the segment
\* are equal.
C27_OnTimeBounds ==
    SegOtp =>
        \A j \in DOMAIN otp_by_segment :
            LET key == KeyOf(otp_by_segment[j])
                n == Cardinality(OwnTrips(key))
                otp == otp_by_segment[j].on_time_performance
            IN  /\ n >= 1
                /\ Cardinality(MarkedOnTime(key)) >= ((3 * (n - 1)) \div 4) + 1
                /\ RLt(RInt(0), otp) /\ RLe(otp, RInt(1))
                /\ (n = 1 \/ Cardinality(SeqRange(OwnTimes(key))) = 1) => otp = RInt(1)

\* a segment of four trips of which exactly three are on time
C27_Witness ==
    /\ SegOtp
    /\ \E j \in DOMAIN otp_by_segment :
        /\ Cardinality(OwnTrips(KeyOf(otp_by_segment[j]))) = 4
        /\ Cardinality(MarkedOnTime(KeyOf(otp_by_segment[j]))) = 3
        /\ otp_by_segment[j].on_time_performance = Rat(3, 4)

\* a segment with a single trip, and one whose two trips take equally long
C27_WitnessAllOnTime ==
    /\ SegOtp
    /\ \E a, b \in DOMAIN otp_by_segment :
        /\ Cardinality(OwnTrips(KeyOf(otp_by_segment[a]))) = 1
        /\ otp_by_segment[a].on_time_performance = RInt(1)
        /\ Cardinality(OwnTrips(KeyOf(otp_by_segment[b]))) = 2
        /\ otp_by_segment[b].on_time_performance = RInt(1)

\* p10 <= median <= p90 and the bounds of the two indices that follow
PercentilesOrdered(row) ==
    /\ RLe(row.p10_travel_time, row.median_travel_time)
    /\ RLe(row.median_travel_time, row.p90_travel_time)
    /\ RLt(RInt(0), row.median_travel_time) => RLe(RInt(0), row.buffer_time_index)
    /\ RLt(RInt(0), row.p10_travel_time) => RLe(RInt(1), row.planning_time_index)

\* C28 as stated: for every segment record p10 <= median <= p90, hence
\* buffer_time_index >= 0 whenever the median is above 0 and
\* planning_time_index >= 1 whenever p10 is above 0; for a segment with a
\* single observation buffer_time_index = 0 and planning_time_index = 1
\* while std and volatility are not a number.
C28_PercentileOrdering ==
    SegDerived =>
        \A i \in DOMAIN travel_reliability :
            LET row == travel_reliability[i]
            IN  /\ PercentilesOrdered(row)
                /\ row.n_observations = 1 =>
                    /\ row.buffer_time_index = RInt(0)
                    /\ row.planning_time_index = RInt(1)
                    /\ row.std_travel_time = Root(NaN)
                    /\ row.travel_time_volatility = Root(NaN)

\* C28, amended: for every segment record p10 <= median <= p90, hence
\* buffer_time_index >= 0 whenever the median is above 0 and
\* planning_time_index >= 1 whenever p10 is above 0; for a segment with a
\* single observation std and volatility are not a number,
\* buffer_time_index = 0 and planning_time_index = 1 when the observed
\* travel time is above 0, and both are not a number when it is 0.
C28_Ordering ==
    SegDerived =>
        \A i \in DOMAIN travel_reliability :
            LET row == travel_reliability[i]
            IN  /\ PercentilesOrdered(row)
                /\ row.n_observations = 1 =>
                    /\ row.std_travel_time = Root(NaN)
                    /\ row.travel_time_volatility = Root(NaN)
                    /\ RLt(RInt(0), row.median_travel_time) =>
                        /\ row.buffer_time_index = RInt(0)
                        /\ row.planning_time_index = RInt(1)
                    /\ row.median_travel_time = RInt(0) =>
                        /\ row.buffer_time_index = NaN
                        /\ row.planning_time_index = NaN

\* a single observation of 60 seconds next to a segment with p10 < median < p90
C28_Witness ==
    /\ SegDerived
    /\ \E a, b \in DOMAIN travel_reliability :
        /\ travel_reliability[a].n_observations = 1
        /\ travel_reliability[a].median_travel_time = RInt(60)
        /\ travel_reliability[a].buffer_time_index = RInt(0)
        /\ travel_reliability[a].planning_time_index = RInt(1)
        /\ travel_reliability[a].travel_time_volatility = Root(NaN)
        /\ RLt(RInt(0), travel_reliability[b].p10_travel_time)
        /\ RLt(travel_reliability[b].p10_travel_time, travel_reliability[b].median_travel_time)
        /\ RLt(travel_reliability[b].median_travel_time, travel_reliability[b].p90_travel_time)
        /\ RLt(RInt(0), travel_reliability[b].buffer_time_index)
        /\ RLt(RInt(1), travel_reliability[b].planning_time_index)

\* a single observation of 0 seconds
C28_WitnessZero ==
    /\ SegDerived
    /\ \E i \in DOMAIN travel_reliability :
        /\ travel_reliability[i].n_observations = 1
        /\ travel_reliability[i].median_travel_time = RInt(0)
        /\ travel_reliability[i].buffer_time_index = NaN

-----------------------------------------------------------------------------
(* Average daily ridership claims *)

RwAggregated == rw_pc \in {"aggregated", "done"}

\* the input records of a group, by position in the table
GroupRecords(key) ==
    {i \in DOMAIN ridership :
        <<ridership[i].route_id, ridership[i].time_period_name>> = key}
FirstRecord(key) ==
    ridership[CHOOSE i \in GroupRecords(key) : \A k \in GroupRecords(key) : i <= k]

\* C26: every (route_id, time_period_name) group's avg_daily_ridership is
\* (sum of boardings + sum of alightings over the group's records) / 2 /
\* service_days, with the service_days of the group's first record; other
\* service_days values in the group do not change the divisor.
C26_AvgDailyRidership ==
    RwAggregated =>
        /\ DOMAIN ridership_weights = GroupKeys(ridership)
        /\ \A key \in DOMAIN ridership_weights :
            /\ ridership_weights[key].number_service_days =
                    RInt(FirstRecord(key).number_service_days)
            /\ ridership_weights[key].avg_daily_ridership =
                    Rat(GroupRiders(key), 2 * FirstRecord(key).number_service_days)

\* a group whose first record has 1 service day and a later one 2
C26_Witness ==
    /\ RwAggregated
    /\ \E key \in DOMAIN ridership_weights :
        /\ FirstRecord(key).number_service_days = 1
        /\ \E i \in GroupRecords(key) : ridership[i].number_service_days = 2
        /\ GroupRiders(key) = 7
        /\ ridership_weights[key].avg_daily_ridership = Rat(7, 2)

-----------------------------------------------------------------------------
(* Capacity fallback claims *)

\* C29: calculate_cts gives every output row a strictly positive capacity
\* that depends only on its route_id, 1000 for a route_id absent from
\* CAPACITY_MAP, so load_factor and CTS are defined for every output row.
C29_CapacityFallback ==
    CtsDone =>
        /\ \A i \in DOMAIN merged :
            /\ IsFinite(merged[i].capacity) /\ RLt(RInt(0), merged[i].capacity)
            /\ merged[i].capacity =
                    IF merged[i].route_id \in CapacityRoutes
                    THEN RInt(CAPACITY_MAP[merged[i].route_id])
                    ELSE RInt(1000)
            /\ IsFinite(merged[i].load_factor)
            /\ merged[i].load_factor = RDiv(merged[i].average_flow, merged[i].capacity)
            /\ IsFinite(merged[i].CTS)
        /\ \A i, j \in DOMAIN merged :
            merged[i].route_id = merged[j].route_id => merged[i].capacity = merged[j].capacity

\* a station of a route without an entry in CAPACITY_MAP next to one of the Red line
C29_Witness ==
    /\ CtsDone
    /\ \E i, j \in DOMAIN merged :
        /\ merged[i].route_id = "Silver"
        /\ merged[i].capacity = RInt(1000)
        /\ merged[i].load_factor = Rat(1, 2)
        /\ merged[i].CTS = Rat(13, 20)
        /\ merged[j].route_id = "Red"
        /\ merged[j].capacity = RInt(1300)

-----------------------------------------------------------------------------
(* Travel-time consolidation claims *)

TtDone == tt_pc = "done"

\* the heavy-rail rows of the input files of this run, as the output holds
\* them, file after file
RowsOfThisRun ==
    Concat([k \in DOMAIN csv_files |-> ReadTemp(HeavyRows(csv_files[k].rows))])

\* C30: when consolidate_travel_times completes, no temp file is left in
\* data/processed and the consolidated output holds exactly the heavy-rail
\* rows of this run's input files, each once, total_rows of them; a stale
\* temp file or two input files of one month neither add nor lose rows.
C30_TempFileProtocol ==
    TtDone =>
        /\ DOMAIN temp_csvs = {}
        /\ SampleAll(final_df) = SampleAll(RowsOfThisRun)
        /\ Len(final_df) = total_rows

\* the temp files are gone when the run completes
TempFilesRemoved == TtDone => DOMAIN temp_csvs = {}

\* a run over files of different months whose output holds no row of a
\* stale temp file (their rows are those of the Orange line) consolidates
\* exactly its own rows
OneFilePerMonth ==
    \A i, j \in DOMAIN csv_files : i # j => csv_files[i].month # csv_files[j].month
NoStaleRow ==
    \A k \in DOMAIN final_df : final_df[k].route_id # Orange
CleanRunConsolidates ==
    (TtDone /\ OneFilePerMonth /\ NoStaleRow) =>
        /\ final_df = RowsOfThisRun
        /\ Len(final_df) = total_rows

====
